---- MODULE Spec2Model ----
(***************************************************************************)
(* Model of the oofs error runtime (crate oofs) and of the wrapper the     *)
(* #[oofs] attribute emits around every ? (crate oofs_derive).             *)
(*                                                                         *)
(* An error value is the sequence of the levels of its causal chain: the   *)
(* error itself first, then its source(), then that one's source(), ...    *)
(* source() of an error e is therefore Tail(e), None when Len(e) = 1.      *)
(* A level is either an Oof (context, tags, attachments, location) or an   *)
(* error of some other type.                                               *)
(***************************************************************************)
EXTENDS Integers, Sequences, FiniteSets, TLC

VARIABLES
    res,     \* the value of the fallible expression being evaluated
    cnt,     \* bookkeeping of the current call site (closure invocations, ...)
    trace,   \* builder methods invoked at the current call site, in order
    pos,     \* number of OofExt / build_oof calls evaluated at this site
    site,    \* call layer of the current site (1 = where the fault originates)
    budget,  \* meta steps and configured entries still available to the run
    input,   \* the value the call of the current site evaluated to
    q,       \* result of the last tag query on the built Oof
    ch,      \* a Chain iterator under test, with what it has yielded
    mac,     \* the #[oofs] attribute macro expanding an item (oofs_derive)
    wr,      \* the Writer walking down to one ? of a function body
    fl,      \* the flattening of the call chain in front of one ?
    tg,      \* a tag set with the operations applied to it
    vc       \* the deferred renderings of the values bound at one call site

vars == <<res, cnt, trace, pos, site, budget, input, q, ch, mac, wr, fl, tg, vc>>

\* the state of the components the run of a call site does not use
parts == <<ch, mac, wr, fl, tg, vc>>

----------------------------------------------------------------------------
(* Bounds of the model *)

MaxDepth == 3   \* call layers a failure is propagated through
MaxOps == 2     \* meta steps, configured entries and hand-made errors in one run
MaxChain == 3   \* errors in the causal chain a Chain iterates over
MaxNone == 2    \* calls made on a Chain after it is exhausted
MaxAttrs == 2   \* attributes on an item and on one of its members together
MaxNest == 3    \* constructs enclosing a ? in a function body
MaxTagOps == 4  \* calls of tag and untag made on one tag set
MaxArgs == 2    \* arguments of one call in the operand of a ?
MaxMethods == 3 \* method calls chained in the operand of a ?
MaxVars == 2    \* values bound to temporaries at one call site

----------------------------------------------------------------------------
(* Inputs *)

TagIds == {"T1", "T2"}
Messages == {"m1", "m2"}
CustomMessages == {"", "m1"}
\* values attached by meta steps written in the chain
AttachVals == {[ty |-> "str", v |-> "field"]}
LazyVals == {[ty |-> "str", v |-> "extra"]}
\* the lists an #[oofs(...)] attribute declares: a call site is configured
\* with the first entries of each
TagDecls == {<<"T1", "T2">>, <<"T2", "T1">>}
AttachDecl == <<[ty |-> "int", v |-> "7"], [ty |-> "str", v |-> "x"]>>
LazyDecl == <<[ty |-> "str", v |-> "l1"], [ty |-> "str", v |-> "l2"]>>
ManualFns == {[op |-> "tag", t |-> "T2"], [op |-> "untag", t |-> "T1"]}

Foreign(id) == [kind |-> "foreign", id |-> id]

\* a foreign error together with the chain of its own sources
ForeignErrs == {<<Foreign("io")>>, <<Foreign("parse"), Foreign("io")>>}

Location(line, column) == [file |-> "src.rs", line |-> line, column |-> column]

----------------------------------------------------------------------------
(* Context: None | Custom(String) | Generated(receiver + chain) *)

ContextNone == [kind |-> "None"]

ContextCustom(m) == [kind |-> "Custom", msg |-> m]

\* Context::new: a generated context starts with returns_option = false
ContextNew(receiver) ==
    [kind |-> "Generated", returns_option |-> FALSE, receiver |-> receiver, chain |-> <<>>]

add_method(c, method) == [c EXCEPT !.chain = Append(@, method)]

returns_option(c) == [c EXCEPT !.returns_option = TRUE]

ContextIsNone(c) == c.kind = "None"

\* the chain description the attribute generated for the call of a layer
Arg(name, ty, display) == [name |-> name, ref_ty |-> "Ref", ty |-> ty, display |-> display]

Method(name, args) == [is_async |-> FALSE, name |-> name, args |-> args]

SiteReceiver(s) ==
    IF s = 1 THEN [kind |-> "Arg", arg |-> Arg("0", "str", <<"\"abc\"">>)]
    ELSE IF s = 2 THEN [kind |-> "Method", method |-> Method("middlelayer", <<Arg("0", "str", <<>>)>>)]
    ELSE [kind |-> "Ident", name |-> "my_struct", is_async |-> FALSE]

SiteMethods(s) ==
    IF s = 1 THEN <<Method("parse", <<>>)>>
    ELSE IF s = 2 THEN <<>>
    ELSE <<Method("failing_method", <<Arg("0", "usize", <<"123">>)>>)>>

RECURSIVE WithMethods(_, _)
WithMethods(c, ms) ==
    IF ms = <<>> THEN c ELSE WithMethods(add_method(c, Head(ms)), Tail(ms))

\* the closure || OofGeneratedContext::new(receiver.into()).with_method(..)..
GeneratedContext(s) == WithMethods(ContextNew(SiteReceiver(s)), SiteMethods(s))

----------------------------------------------------------------------------
(* Tags (tags.rs) *)

TagsNew == {}

TagsTag(set, t) == set \cup {t}

\* faulty variant: every key is removed
TagsUntagAll(set, t) == {}

TagsUntag(set, t) == set \ {t}

TagsTagged(set, t) == t \in set

----------------------------------------------------------------------------
(* OofBuilder (builder.rs) *)

OofBuilderNew(loc) ==
    [context |-> ContextNone, source |-> <<>>, tags |-> TagsNew,
     attachments |-> <<>>, location |-> loc]

\* faulty variant: the source is forgotten
with_source_dropped(b, e) == b

\* faulty variant: the source is put into a builder made anew
with_source_anew(b, e) ==
    [context |-> ContextNone, source |-> e, tags |-> TagsNew, attachments |-> <<>>,
     location |-> b.location]

with_source(b, e) == [b EXCEPT !.source = e]

with_generated(b, c) == [b EXCEPT !.context = c]

with_custom(b, m) == [b EXCEPT !.context = ContextCustom(m)]

with_tag(b, t) == [b EXCEPT !.tags = TagsTag(@, t)]

\* Debug rendering of an attached value: a string is quoted
DebugFmt(d) == IF d.ty = "str" THEN <<"\"", d.v, "\"">> ELSE <<d.v>>

\* Display rendering (to_string)
ToStr(d) == <<d.v>>

with_attachment(b, d) == [b EXCEPT !.attachments = Append(@, DebugFmt(d))]

with_attachment_lazy(b, d) == [b EXCEPT !.attachments = Append(@, ToStr(d))]

\* Into<Box<dyn Error>>: the built Oof is the head of its causal chain
build(b) ==
    <<[kind |-> "oof", context |-> b.context, tags |-> b.tags,
       attachments |-> b.attachments, location |-> b.location]>> \o b.source

----------------------------------------------------------------------------
(* Values of a fallible expression: Result<T, E>, Option<T>,               *)
(* Result<T, OofBuilder<E>> ("ResultB") and the Result<T, Oof> that        *)
(* build_oof returns ("Final")                                             *)

ROk(ty, v) == [ty |-> ty, ok |-> TRUE, val |-> v]

RErr(e) == [ty |-> "Result", ok |-> FALSE, err |-> e]

RNone == [ty |-> "Option", ok |-> FALSE]

RErrB(b) == [ty |-> "ResultB", ok |-> FALSE, b |-> b]

RFinalErr(oof) == [ty |-> "Final", ok |-> FALSE, err |-> oof]

\* an Err(oof) whose Oof the caller has taken out and changed
RHeld(oof) == [ty |-> "Held", ok |-> FALSE, err |-> oof]

\* an Err(oof) its receiver has taken out of the Result and inspected
RInspected(oof) == [ty |-> "Inspected", ok |-> FALSE, err |-> oof]

CntZero == [new |-> 0, gen |-> 0, pred |-> 0, man |-> 0, lazy |-> 0,
            ctxset |-> 0, first |-> ContextNone]

\* the evaluation state threaded through the calls of one expression
Cur == [res |-> res, cnt |-> cnt, trace |-> trace, pos |-> pos]

Log(s, name, arg) == [s EXCEPT !.trace = Append(@, <<name, arg>>)]

\* bookkeeping of an assignment to the builder's context field
NoteContext(s) ==
    [s EXCEPT !.cnt.ctxset = @ + 1,
              !.cnt.first = IF s.cnt.ctxset = 0 THEN s.res.b.context ELSE @]

\* OofBuilder::new() at the caller's location (#[track_caller])
MNew(s, st) ==
    [Log(s, "new", Location(st, s.pos + 1)) EXCEPT
                              !.res = RErrB(OofBuilderNew(Location(st, s.pos + 1))),
                              !.cnt.new = @ + 1]

MSource(s, e) == [Log(s, "with_source", "") EXCEPT !.res.b = with_source(@, e)]

MCustom(s, m) == NoteContext([Log(s, "with_custom", m) EXCEPT !.res.b = with_custom(@, m)])

\* b.with_generated(f()): the context closure runs here
MGenerated(s, st) ==
    NoteContext([Log(s, "with_generated", "") EXCEPT
                    !.cnt.gen = @ + 1,
                    !.res.b = with_generated(@, GeneratedContext(st))])

MTag(s, t) == [Log(s, "with_tag", t) EXCEPT !.res.b = with_tag(@, t)]

\* faulty variant: the predicate is run whether or not there is a source
MTagIfAlways(s, t, f) ==
    LET c == [Log(s, "with_tag_if", [t |-> t, f |-> f]) EXCEPT !.cnt.pred = @ + 1]
    IN  IF f THEN MTag(c, t) ELSE c

\* with_tag_if: the predicate runs only on a present source
MTagIf(s, t, f) ==
    LET l == Log(s, "with_tag_if", [t |-> t, f |-> f])
    IN  IF s.res.b.source # <<>>
        THEN LET c == [l EXCEPT !.cnt.pred = @ + 1]
             IN  IF f THEN MTag(c, t) ELSE c
        ELSE l

\* with_tag_manually: the closure edits the tag set, only on a present source
MTagManually(s, fn) ==
    IF s.res.b.source # <<>>
    THEN [Log(s, "with_tag_manually", fn) EXCEPT
            !.cnt.man = @ + 1,
            !.res.b.tags = IF fn.op = "tag" THEN TagsTag(@, fn.t) ELSE TagsUntag(@, fn.t)]
    ELSE s

MAttach(s, d) == [Log(s, "with_attachment", d) EXCEPT !.res.b = with_attachment(@, d)]

MAttachLazy(s, d) ==
    [Log(s, "with_attachment_lazy", d) EXCEPT
        !.res.b = with_attachment_lazy(@, d), !.cnt.lazy = @ + 1]

MBuild(s) == [Log(s, "build", "") EXCEPT !.res = RFinalErr(build(s.res.b))]

----------------------------------------------------------------------------
(* OofExt for Result<T, E>, Option<T> (ext.rs) and for                     *)
(* Result<T, OofBuilder<E>> (builder.rs)                                   *)

Pass(s) == [s EXCEPT !.res = ROk("ResultB", s.res.val)]

Step(s) == [s EXCEPT !.pos = @ + 1]

\* Err(e) / None => a fresh builder, holding the source when there is one
Fresh(s, st) ==
    IF s.res.ty = "Result" THEN MSource(MNew(s, st), s.res.err) ELSE MNew(s, st)

OnErr(s, st) == IF s.res.ty = "ResultB" THEN s ELSE Fresh(s, st)

_context(s, st, m) ==
    Step(IF s.res.ok THEN Pass(s)
         ELSE IF s.res.ty = "Result" THEN MSource(MCustom(MNew(s, st), m), s.res.err)
         ELSE IF s.res.ty = "Option" THEN MCustom(MNew(s, st), m)
         ELSE MCustom(s, m))

_tag(s, st, t) == Step(IF s.res.ok THEN Pass(s) ELSE MTag(OnErr(s, st), t))

_tag_if(s, st, t, f) == Step(IF s.res.ok THEN Pass(s) ELSE MTagIf(OnErr(s, st), t, f))

_tag_manually(s, st, fn) ==
    Step(IF s.res.ok THEN Pass(s) ELSE MTagManually(OnErr(s, st), fn))

_attach(s, st, d) == Step(IF s.res.ok THEN Pass(s) ELSE MAttach(OnErr(s, st), d))

\* faulty variant: the closure is run before the receiver is looked at
_attach_lazy_eager(s, st, d) ==
    Step(IF s.res.ok THEN [Pass(s) EXCEPT !.cnt.lazy = @ + 1]
         ELSE MAttachLazy(OnErr(s, st), d))

_attach_lazy(s, st, d) == Step(IF s.res.ok THEN Pass(s) ELSE MAttachLazy(OnErr(s, st), d))

\* OofGenerator::build_oof for the three receiver types
build_oof(s, st) ==
    Step(IF s.res.ok THEN [s EXCEPT !.res = ROk("Final", s.res.val)]
         ELSE LET b == OnErr(Log(s, "build_oof", ""), st)
              IN  MBuild(IF ContextIsNone(b.res.b.context) THEN MGenerated(b, st) ELSE b))

----------------------------------------------------------------------------
(* The wrapper emitted around a ? (oofs_derive context.rs, ContextInner)   *)

Reverse(sq) == [i \in 1..Len(sq) |-> sq[Len(sq) + 1 - i]]

\* fn tag / attach / attach_lazy: one call around the rest, first item outermost
RECURSIVE NestCalls(_, _, _)
NestCalls(name, items, inner) ==
    IF items = <<>> THEN inner
    ELSE <<[call |-> name, arg |-> Head(items)]>> \o NestCalls(name, Tail(items), inner)

\* faulty variant: the three groups nested the other way round
EmitWrapperLazyFirst(props) ==
    NestCalls("_tag", Reverse(props.tag),
        NestCalls("_attach", Reverse(props.attach),
            NestCalls("_attach_lazy", Reverse(props.attach_lazy),
                <<[call |-> "expr", arg |-> ""]>>)))

\* the nested call expression handed to build_oof, outermost call first
EmitWrapper(props) ==
    NestCalls("_attach_lazy", Reverse(props.attach_lazy),
        NestCalls("_attach", Reverse(props.attach),
            NestCalls("_tag", Reverse(props.tag), <<[call |-> "expr", arg |-> ""]>>)))

ApplyCall(s, st, c) ==
    IF c.call = "_tag" THEN _tag(s, st, c.arg)
    ELSE IF c.call = "_attach" THEN _attach(s, st, c.arg)
    ELSE IF c.call = "_attach_lazy" THEN _attach_lazy(s, st, c.arg)
    ELSE s   \* the call as written: its value is the state handed in

\* a call's first argument is evaluated before the call: innermost first
RECURSIVE EvalNest(_, _, _)
EvalNest(s, st, nest) ==
    IF nest = <<>> THEN s ELSE ApplyCall(EvalNest(s, st, Tail(nest)), st, Head(nest))

\* the trace marks where the emitted wrapper starts, and its configuration
InstrumentedSite(s, st, props) ==
    build_oof(EvalNest(Log(s, "site", props), st, EmitWrapper(props)), st)

\* wrap_err(e) and Oof::custom(message) (the oof! macro), returned with into_res()
wrap_err(s, st) == Step(MBuild(MSource(MNew(s, st), s.res.err)))

custom(s, st, m) == Step(MBuild(MCustom(MNew(s, st), m)))

\* the configurations whose lists hold at most n entries together
Prefix(sq, k) == SubSeq(sq, 1, k)

PropsLen(p) == Len(p.tag) + Len(p.attach) + Len(p.attach_lazy)

PropsSet(n) ==
    UNION {{[tag |-> Prefix(td, k[1]), attach |-> Prefix(AttachDecl, k[2]),
             attach_lazy |-> Prefix(LazyDecl, k[3])] :
               k \in {x \in (0..Len(td)) \X (0..Len(AttachDecl)) \X (0..Len(LazyDecl)) :
                         x[1] + x[2] + x[3] <= n}} : td \in TagDecls}

----------------------------------------------------------------------------
(* Chain (chain.rs): the iterator over an error and its causes.            *)
(* An item is an error (a non-empty sequence of levels); <<>> is None.     *)

\* Error::source
Source(e) == Tail(e)

ChainNew(head) == [state |-> "Linked", next |-> head]

\* faulty variant: the loop advances before it records the cause
RECURSIVE CollectFromSource(_)
CollectFromSource(next) ==
    IF next = <<>> \/ Source(next) = <<>> THEN <<>>
    ELSE <<Source(next)>> \o CollectFromSource(Source(next))

\* the while let Some(cause) = next loops of next_back and len
RECURSIVE Collect(_)
Collect(next) == IF next = <<>> THEN <<>> ELSE <<next>> \o Collect(Source(next))

\* vec::IntoIter::next
PopFront(rest) ==
    IF rest = <<>> THEN [item |-> <<>>, rest |-> rest]
    ELSE [item |-> Head(rest), rest |-> Tail(rest)]

ChainNext(c) ==
    IF c.state = "Linked"
    THEN IF c.next = <<>> THEN [item |-> <<>>, chain |-> c]
         ELSE [item |-> c.next, chain |-> [c EXCEPT !.next = Source(c.next)]]
    ELSE LET r == PopFront(c.rest)
         IN  [item |-> r.item, chain |-> [c EXCEPT !.rest = r.rest]]

\* vec::IntoIter::next_back
PopBack(rest) ==
    IF rest = <<>> THEN [item |-> <<>>, rest |-> rest]
    ELSE [item |-> rest[Len(rest)], rest |-> SubSeq(rest, 1, Len(rest) - 1)]

\* faulty variant: yields from the front of the buffer
ChainNextBackFront(c) ==
    LET r == PopFront(IF c.state = "Linked" THEN Collect(c.next) ELSE c.rest)
    IN  [item |-> r.item, chain |-> [state |-> "Buffered", rest |-> r.rest]]

ChainNextBack(c) ==
    LET r == PopBack(IF c.state = "Linked" THEN Collect(c.next) ELSE c.rest)
    IN  [item |-> r.item, chain |-> [state |-> "Buffered", rest |-> r.rest]]

\* faulty variant: the error the chain stands at is not counted
ChainLenFromSource(c) ==
    IF c.state = "Linked" THEN Len(CollectFromSource(c.next)) ELSE Len(c.rest)

\* ExactSizeIterator::len
ChainLen(c) == IF c.state = "Linked" THEN Len(Collect(c.next)) ELSE Len(c.rest)

\* Iterator::size_hint: (len, Some(len))
size_hint(c) == <<ChainLen(c), <<ChainLen(c)>>>>

\* Iterator::skip(n) over a Chain: the first next() drops n items; next_back()
\* yields from the back while more than n items are left
SkipNew(c, n) == [iter |-> c, n |-> n]

RECURSIVE Drop(_, _)
Drop(c, n) == IF n = 0 THEN c ELSE Drop(ChainNext(c).chain, n - 1)

SkipNext(k) ==
    LET r == ChainNext(Drop(k.iter, k.n))
    IN  [item |-> r.item, iter |-> [iter |-> r.chain, n |-> 0]]

SkipNextBack(k) ==
    IF ChainLen(k.iter) > k.n
    THEN LET r == ChainNextBack(k.iter)
         IN  [item |-> r.item, iter |-> [k EXCEPT !.iter = r.chain]]
    ELSE [item |-> <<>>, iter |-> k]

----------------------------------------------------------------------------
(* Tag queries on a built Oof (lib.rs)                                     *)

\* faulty variant: the causes are consulted too
tagged_deep(e, t) == \E i \in 1..Len(e) : e[i].kind = "oof" /\ t \in e[i].tags

tagged(e, t) == t \in e[1].tags

\* cause.downcast_ref::<Oof>()
IsOof(cause) == cause[1].kind = "oof"

\* the two for cause in ... loops; seen lists the causes examined, each
\* named by its depth below e (1 = the immediate cause)
RECURSIVE ForCauses(_, _, _, _, _)
ForCauses(e, t, it, back, seen) ==
    LET r == IF back THEN SkipNextBack(it) ELSE SkipNext(it)
        d == Len(e) - Len(r.item)
    IN  IF r.item = <<>> THEN [found |-> FALSE, seen |-> seen]
        ELSE IF IsOof(r.item) /\ tagged(r.item, t)
             THEN [found |-> TRUE, seen |-> Append(seen, d)]
             ELSE ForCauses(e, t, r.iter, back, Append(seen, d))

NestedScan(e, t) ==
    IF tagged(e, t) THEN [found |-> TRUE, seen |-> <<0>>]
    ELSE ForCauses(e, t, SkipNew(ChainNew(e), 1), FALSE, <<0>>)

NestedRevScan(e, t) ==
    LET r == ForCauses(e, t, SkipNew(ChainNew(e), 1), TRUE, <<>>)
    IN  IF r.found THEN r
        ELSE [found |-> tagged(e, t), seen |-> Append(r.seen, 0)]

\* faulty variant: the causes are never consulted
tagged_nested_shallow(e, t) == tagged(e, t)

tagged_nested(e, t) == NestedScan(e, t).found

\* faulty variant: the Oof itself is not looked at after its causes
tagged_nested_rev_causes(e, t) ==
    ForCauses(e, t, SkipNew(ChainNew(e), 1), TRUE, <<>>).found

tagged_nested_rev(e, t) == NestedRevScan(e, t).found

----------------------------------------------------------------------------
(* Rendering (oofs context.rs, lib.rs). A text is the sequence of the      *)
(* pieces written to the formatter; "\n" is always a piece of its own.     *)

\* the character U+0060, which the pieces below cannot hold literally
Backtick == "[backtick]"

RECURSIVE Flatten(_)
Flatten(ss) == IF ss = <<>> THEN <<>> ELSE Head(ss) \o Flatten(Tail(ss))

\* the Indented writer: the first write is preceded by the number or by four
\* blanks, and every line break is followed by the continuation indent
Indented(text, number) ==
    IF text = <<>> THEN <<>>
    ELSE (IF number = <<>> THEN <<"    ">> ELSE <<"    ", number[1], ": ">>)
         \o Flatten([i \in 1..Len(text) |->
                IF text[i] = "\n"
                THEN <<"\n", IF number = <<>> THEN "    " ELSE "       ">>
                ELSE <<text[i]>>])

RefTypeFmt(r) == IF r = "Ref" THEN "&" ELSE ""

ArgFmt(a, alternate) ==
    <<"$", a.name>>
    \o (IF alternate
        THEN <<": ", RefTypeFmt(a.ref_ty), a.ty>>
             \o (IF a.display # <<>> THEN <<" = ">> \o a.display ELSE <<>>)
        ELSE <<>>)

MethodFmt(m) ==
    <<m.name, "(">>
    \o Flatten([i \in 1..Len(m.args) |->
            ArgFmt(m.args[i], FALSE) \o (IF i < Len(m.args) THEN <<", ">> ELSE <<>>)])
    \o <<")">>
    \o (IF m.is_async THEN <<".await">> ELSE <<>>)

IdentFmt(i) == <<i.name>> \o (IF i.is_async THEN <<".await">> ELSE <<>>)

ReceiverFmt(r) ==
    IF r.kind = "Ident" THEN IdentFmt(r)
    ELSE IF r.kind = "Method" THEN MethodFmt(r.method)
    ELSE ArgFmt(r.arg, FALSE)

\* Display for a generated context
GeneratedFmt(c, alternate) ==
    ReceiverFmt(c.receiver)
    \o (IF Len(c.chain) > 2 /\ alternate
        THEN Indented(Flatten([i \in 1..Len(c.chain) |->
                                <<"\n", ".">> \o MethodFmt(c.chain[i])]), <<>>)
        ELSE Flatten([i \in 1..Len(c.chain) |-> <<".">> \o MethodFmt(c.chain[i])]))
    \o (IF c.returns_option THEN <<" returned ", Backtick, "None", Backtick>> ELSE <<" failed">>)

ReceiverArgsExists(r) ==
    IF r.kind = "Arg" THEN TRUE
    ELSE IF r.kind = "Method" THEN r.method.args # <<>>
    ELSE FALSE

MethodFmtArgs(m) ==
    Flatten([i \in 1..Len(m.args) |-> ArgFmt(m.args[i], TRUE) \o <<"\n">>])

ReceiverFmtArgs(r) ==
    IF r.kind = "Arg" THEN ArgFmt(r.arg, TRUE) \o <<"\n">>
    ELSE IF r.kind = "Method" THEN MethodFmtArgs(r.method)
    ELSE <<>>

\* Context::fmt_args: the Parameters block
FmtArgs(c) ==
    IF ReceiverArgsExists(c.receiver) \/ \E i \in 1..Len(c.chain) : c.chain[i].args # <<>>
    THEN <<"\n", "\n", "Parameters:", "\n">>
         \o Indented(ReceiverFmtArgs(c.receiver)
                     \o Flatten([i \in 1..Len(c.chain) |-> MethodFmtArgs(c.chain[i])]), <<>>)
    ELSE <<>>

\* Display for Context: the message of a context that was never set
FallbackMessage == "Error encountered"

ContextFmt(c) ==
    IF c.kind = "Generated" THEN GeneratedFmt(c, FALSE)
    ELSE IF c.kind = "Custom" THEN <<c.msg>>
    ELSE <<FallbackMessage>>

LocationFmt(l) == <<l.file, ":", ToString(l.line), ":", ToString(l.column)>>

\* faulty variant: only the context is written
OofFmtNoLocation(o) == ContextFmt(o.context)

\* Display for Oof
OofFmt(o) ==
    ContextFmt(o.context)
    \o <<" at ", Backtick>> \o LocationFmt(o.location) \o <<Backtick>>
    \o (IF o.context.kind = "Generated" \/ o.attachments # <<>> THEN <<"\n">> ELSE <<>>)
    \o (IF o.context.kind = "Generated" THEN FmtArgs(o.context) ELSE <<>>)
    \o (IF o.attachments # <<>>
        THEN <<"\n", "Attachments:", "\n">>
             \o Flatten([i \in 1..Len(o.attachments) |->
                    Indented(o.attachments[i], <<ToString(i - 1)>>) \o <<"\n">>])
        ELSE <<>>)

\* the rendered string has no character
IsEmptyText(text) == \A i \in 1..Len(text) : text[i] = ""

----------------------------------------------------------------------------
(* The operations of a built Oof (lib.rs): the Oof is the first level of   *)
(* the error value, its source the levels below it.                        *)

\* Oof::tag
tag(e, t) == [e EXCEPT ![1].tags = TagsTag(@, t)]

\* faulty variant: the predicate is not asked for a source
tag_if_sourceless(e, t, f) == IF f THEN tag(e, t) ELSE e

\* Oof::tag_if: f is the answer of the predicate for the source
tag_if(e, t, f) == IF Source(e) # <<>> /\ f THEN tag(e, t) ELSE e

\* faulty variant: the new entry is put in front
attach_front(e, d) == [e EXCEPT ![1].attachments = <<DebugFmt(d)>> \o @]

\* Oof::attach
attach(e, d) == [e EXCEPT ![1].attachments = Append(@, DebugFmt(d))]

\* faulty variant: the Oof is made anew around the value, without its source
attach_lazy_rebuilt(e, d) == <<[e[1] EXCEPT !.attachments = Append(@, ToStr(d))]>>

\* Oof::attach_lazy
attach_lazy(e, d) == [e EXCEPT ![1].attachments = Append(@, ToStr(d))]

----------------------------------------------------------------------------
(* The run: a fallible call is evaluated, meta steps written in its chain  *)
(* are applied, the emitted wrapper builds the Oof, and the caller either  *)
(* queries the Oof or returns it through its own instrumented ?.           *)

NoQuery == <<>>

Inputs ==
    {ROk("Result", "v"), ROk("Option", "v"), RNone} \cup {RErr(e) : e \in ForeignErrs}

NoChain == [state |-> "unused"]

NoMacro == [phase |-> "unused"]

NoWriter == [phase |-> "unused"]

NoFlatten == [phase |-> "unused"]

NoTags == [phase |-> "unused"]

NoVarCheck == [phase |-> "unused"]

Init ==
    /\ res \in Inputs
    /\ input = res
    /\ cnt = CntZero
    /\ trace = <<>>
    /\ pos = 0
    /\ site = 1
    /\ budget = MaxOps
    /\ q = NoQuery
    /\ ch = NoChain /\ mac = NoMacro /\ wr = NoWriter /\ fl = NoFlatten /\ tg = NoTags /\ vc = NoVarCheck

Open == res.ty \in {"Result", "Option", "ResultB"}

Apply(s, cost) ==
    /\ res' = s.res
    /\ cnt' = s.cnt
    /\ trace' = s.trace
    /\ pos' = s.pos
    /\ budget' = budget - cost
    /\ UNCHANGED <<site, input, q>>
    /\ UNCHANGED parts

MetaContext == Open /\ budget > 0 /\ \E m \in Messages : Apply(_context(Cur, site, m), 1)

MetaTag == Open /\ budget > 0 /\ \E t \in TagIds : Apply(_tag(Cur, site, t), 1)

MetaTagIf ==
    Open /\ budget > 0 /\ \E f \in BOOLEAN : Apply(_tag_if(Cur, site, "T1", f), 1)

MetaTagManually ==
    Open /\ budget > 0 /\ \E fn \in ManualFns : Apply(_tag_manually(Cur, site, fn), 1)

MetaAttach == Open /\ budget > 0 /\ \E d \in AttachVals : Apply(_attach(Cur, site, d), 1)

MetaAttachLazy ==
    Open /\ budget > 0 /\ \E d \in LazyVals : Apply(_attach_lazy(Cur, site, d), 1)

BuildOof ==
    Open /\ \E p \in PropsSet(budget) : Apply(InstrumentedSite(Cur, site, p), PropsLen(p))

\* the function fails by hand instead of using ? on the failed call
WrapErr ==
    /\ Open /\ ~res.ok /\ res.ty = "Result" /\ pos = 0 /\ budget > 0
    /\ Apply(wrap_err(Cur, site), 1)

OofCustom ==
    /\ Open /\ ~res.ok /\ pos = 0 /\ budget > 0
    /\ \E m \in CustomMessages : Apply(custom(Cur, site, m), 1)

Failed == res.ty = "Final" /\ ~res.ok

\* the caller holds the Err(oof) of the call it made
Returned == res.ty \in {"Final", "Held", "Inspected"} /\ ~res.ok

\* the caller holds the Oof itself: as returned, or after its own changes
Held == res.ty \in {"Final", "Held"} /\ ~res.ok

\* the caller's own ? on the call that returned Err(oof): E = Oof
Propagate ==
    /\ Returned /\ site < MaxDepth
    /\ res' = RErr(res.err)
    /\ input' = res'
    /\ cnt' = CntZero /\ trace' = <<>> /\ pos' = 0 /\ q' = NoQuery
    /\ site' = site + 1
    /\ UNCHANGED budget
    /\ UNCHANGED parts

\* a caller converts the Oof into an error type of its own that keeps the
\* Oof as its source(), and fails with that
PropagateWrapped ==
    /\ Returned /\ site < MaxDepth
    /\ budget > 0
    /\ res' = RErr(<<Foreign("wrap")>> \o res.err)
    /\ input' = res'
    /\ cnt' = CntZero /\ trace' = <<>> /\ pos' = 0 /\ q' = NoQuery
    /\ site' = site + 1
    /\ budget' = budget - 1
    /\ UNCHANGED parts

\* the caller takes the Oof out of the Err and asks it about every tag
QueryOf(e, t) ==
    [tagged |-> tagged(e, t),
     nested |-> tagged_nested(e, t),
     nested_rev |-> tagged_nested_rev(e, t),
     seen |-> NestedScan(e, t).seen,
     seen_rev |-> NestedRevScan(e, t).seen]

Query ==
    /\ Held
    /\ q' = [t \in TagIds |-> QueryOf(res.err, t)]
    /\ res' = RInspected(res.err)
    /\ input' = res'
    /\ cnt' = CntZero /\ trace' = <<>> /\ pos' = 0
    /\ UNCHANGED <<site, budget>>
    /\ UNCHANGED parts

\* the caller maps the error: .map_err(|e| e.tag::<T>()) and the like
OofTag ==
    /\ Held /\ budget > 0
    /\ \E t \in TagIds :
          Apply([Log(Cur, "tag", t) EXCEPT !.res = RHeld(tag(res.err, t))], 1)

OofTagIf ==
    /\ Held /\ budget > 0
    /\ \E f \in BOOLEAN :
          Apply([Log(Cur, "tag_if", [t |-> "T2", f |-> f]) EXCEPT
                    !.res = RHeld(tag_if(res.err, "T2", f)),
                    !.cnt.pred = IF Source(res.err) # <<>> THEN @ + 1 ELSE @], 1)

OofAttach ==
    /\ Held /\ budget > 0
    /\ \E d \in AttachVals :
          Apply([Log(Cur, "attach", d) EXCEPT !.res = RHeld(attach(res.err, d))], 1)

OofAttachLazy ==
    /\ Held /\ budget > 0
    /\ \E d \in LazyVals :
          Apply([Log(Cur, "attach_lazy", d) EXCEPT
                    !.res = RHeld(attach_lazy(res.err, d)), !.cnt.lazy = @ + 1], 1)

Next ==
    \/ MetaContext \/ MetaTag \/ MetaTagIf \/ MetaTagManually
    \/ MetaAttach \/ MetaAttachLazy
    \/ BuildOof \/ WrapErr \/ OofCustom
    \/ OofTag \/ OofTagIf \/ OofAttach \/ OofAttachLazy
    \/ Propagate \/ PropagateWrapped \/ Query

Spec == Init /\ [][Next]_vars

----------------------------------------------------------------------------
(* A Chain used directly: next() and next_back() in any interleaving       *)

ChainLevels == {Foreign("io"), Foreign("parse")}

ChainHeads == UNION {[1..n -> ChainLevels] : n \in 1..MaxChain}

\* Chain::default(): the chain of no error
ChainDefault == [state |-> "Buffered", rest |-> <<>>]

ChainStart(head, c) == [head |-> head, chain |-> c, front |-> <<>>, back |-> <<>>, nones |-> 0]

\* no call site is evaluated: the components below are used on their own
NoRun ==
    /\ res = RNone /\ input = RNone /\ cnt = CntZero /\ trace = <<>>
    /\ pos = 0 /\ site = 1 /\ budget = 0 /\ q = NoQuery

run == <<res, cnt, trace, pos, site, budget, input, q>>

InitChain ==
    /\ ch \in {ChainStart(h, ChainNew(h)) : h \in ChainHeads}
              \cup {ChainStart(<<>>, ChainDefault)}
    /\ NoRun
    /\ mac = NoMacro /\ wr = NoWriter /\ fl = NoFlatten /\ tg = NoTags /\ vc = NoVarCheck

Yield(r, field) ==
    /\ r.item = <<>> => ch.nones < MaxNone
    /\ ch' = IF r.item = <<>>
             THEN [ch EXCEPT !.chain = r.chain, !.nones = @ + 1]
             ELSE [ch EXCEPT !.chain = r.chain, ![field] = Append(@, r.item)]
    /\ UNCHANGED <<run, vc, mac, wr, fl, tg>>

CallNext == Yield(ChainNext(ch.chain), "front")

CallNextBack == Yield(ChainNextBack(ch.chain), "back")

NextChain == CallNext \/ CallNextBack

SpecChain == InitChain /\ [][NextChain]_vars

----------------------------------------------------------------------------
(* The #[oofs] attribute (oofs_derive: lib.rs, props.rs, fn_item.rs,        *)
(* impl_item.rs). An attribute is the list of its arguments as written;   *)
(* Option<bool> is <<>> for None and <<b>> for Some(b).                    *)

BoolArg(name, b) == [name |-> name, kind |-> "bool", val |-> b]

VecArg(name, items) == [name |-> name, kind |-> "vec", val |-> items]

EnumArg(name, v) == [name |-> name, kind |-> "enum", val |-> v]

\* impl Default for PropArgs
PropArgsDefault ==
    [closures |-> <<>>, async_blocks |-> <<>>, skip |-> <<>>,
     tag |-> <<>>, attach |-> <<>>, attach_lazy |-> <<>>,
     debug_skip |-> <<>>, debug_with |-> <<>>, debug_non_copyable |-> "None"]

\* extract_bool / extract_vec / extract_generic: the value an argument holds
Extract(a) == IF a.kind = "bool" THEN <<a.val>> ELSE a.val

\* impl Parse for PropArgs: args.f = t for every argument, in order
RECURSIVE ParseInto(_, _)
ParseInto(args, parsed) ==
    IF parsed = <<>> THEN args
    ELSE ParseInto([args EXCEPT ![Head(parsed).name] = Extract(Head(parsed))], Tail(parsed))

PropArgsParse(parsed) == ParseInto(PropArgsDefault, parsed)

\* faulty variant: an explicit false does not replace an outer true
MergeOptionOr(this, other) ==
    IF other = <<>> THEN this
    ELSE IF this = <<>> THEN other
    ELSE <<this[1] \/ other[1]>>

\* @merge .. as option
MergeOption(this, other) == IF other # <<>> THEN other ELSE this

\* @merge .. as vec
MergeVec(this, other) == this \o other

\* @merge of a plain field
MergePlain(this, other) == other

\* PropArgs::merge
PropArgsMerge(this, other) ==
    [closures |-> MergeOption(this.closures, other.closures),
     async_blocks |-> MergeOption(this.async_blocks, other.async_blocks),
     skip |-> MergeOption(this.skip, other.skip),
     tag |-> MergeVec(this.tag, other.tag),
     attach |-> MergeVec(this.attach, other.attach),
     attach_lazy |-> MergeVec(this.attach_lazy, other.attach_lazy),
     debug_skip |-> MergeVec(this.debug_skip, other.debug_skip),
     debug_with |-> MergeVec(this.debug_with, other.debug_with),
     debug_non_copyable |-> MergePlain(this.debug_non_copyable, other.debug_non_copyable)]

\* @helper .. bool as option: unwrap_or(false)
UnwrapOrFalse(opt) == IF opt = <<>> THEN FALSE ELSE opt[1]

Closures(props) == UnwrapOrFalse(props.closures)

AsyncBlocks(props) == UnwrapOrFalse(props.async_blocks)

Skip(props) == UnwrapOrFalse(props.skip)

\* an attribute of an item: #[oofs(args)] or an attribute of another path
OofsAttr(args) == [oofs |-> TRUE, args |-> args]

OtherAttr == [oofs |-> FALSE, args |-> <<>>]

\* Props::merge_attr: the props after the call (its result is attr.oofs)
merge_attr(props, attr) ==
    IF ~attr.oofs THEN props
    ELSE IF attr.args = <<>> THEN props
    ELSE PropArgsMerge(props, PropArgsParse(attr.args))

\* the attribute lists written in the examples of the crate
ArgLists ==
    {<<>>,
     <<VecArg("tag", <<"A", "B">>)>>,
     <<VecArg("tag", <<"C">>), VecArg("attach", <<"1">>), VecArg("attach_lazy", <<"l">>),
       VecArg("tag", <<"D">>), VecArg("debug_skip", <<"x">>), VecArg("debug_with", <<"w">>)>>,
     <<BoolArg("skip", TRUE)>>,
     <<BoolArg("skip", FALSE)>>,
     <<BoolArg("closures", TRUE)>>,
     <<BoolArg("closures", FALSE), BoolArg("async_blocks", TRUE)>>,
     <<EnumArg("debug_non_copyable", "Full")>>,
     <<EnumArg("debug_non_copyable", "Disabled")>>}

Attrs == {OofsAttr(a) : a \in ArgLists} \cup {OtherAttr}

BSeq(S, n) == UNION {[1..k -> S] : k \in 0..n}

\* the declared return type of a method: none, a path, or another type
ReturnTypes ==
    {[kind |-> "Default"], [kind |-> "ImplTrait"],
     [kind |-> "Path", segments |-> <<"Result">>],
     [kind |-> "Path", segments |-> <<"io", "Result">>],
     [kind |-> "Path", segments |-> <<"Option">>]}

ReturnsResult(ret) ==
    IF ret.kind = "Path" THEN ret.segments[Len(ret.segments)] = "Result" ELSE FALSE

\* the items of an impl block: methods, and items of another kind
ImplItems(n) ==
    {[kind |-> "method", attrs |-> at, ret |-> r] : at \in BSeq(Attrs, n), r \in ReturnTypes}
    \cup {[kind |-> "const", attrs |-> <<>>, ret |-> [kind |-> "Default"]]}

\* the loop of should_impl_oof over the attributes of a method
RECURSIVE AttrsDecide(_)
AttrsDecide(attrs) ==
    IF attrs = <<>> THEN "undecided"
    ELSE IF Skip(merge_attr(PropArgsDefault, Head(attrs))) THEN "skip"
    ELSE IF Head(attrs).oofs THEN "oofs"
    ELSE AttrsDecide(Tail(attrs))

should_impl_oof(item) ==
    IF item.kind # "method" THEN FALSE
    ELSE LET d == AttrsDecide(item.attrs)
         IN  IF d = "skip" THEN FALSE
             ELSE IF d = "oofs" THEN TRUE
             ELSE ReturnsResult(item.ret)

RECURSIVE MergeAttrs(_, _)
MergeAttrs(props, attrs) ==
    IF attrs = <<>> THEN props ELSE MergeAttrs(merge_attr(props, Head(attrs)), Tail(attrs))

\* the argument lists of the #[oofs] attributes among attrs, in order
OofsArgs(attrs) ==
    LET oofs == SelectSeq(attrs, LAMBDA a : a.oofs)
    IN  [i \in 1..Len(oofs) |-> oofs[i].args]

NoOut == [item |-> "none"]

\* what was emitted for a function or for an item of an impl block:
\* whether its body went through the Writer, under which props, and the
\* argument lists declared for it at the outer levels and on the item itself
Emitted(item, instrumented, props, outer, own) ==
    [item |-> item.kind, ret |-> item.ret, instrumented |-> instrumented,
     props |-> props, outer |-> outer, own |-> own]

\* oofs(args, input): the item is parsed, the arguments are merged into it
InitMacro ==
    /\ \E kind \in {"fn", "impl"}, args \in ArgLists :
          mac = [phase |-> "attrs", kind |-> kind, left |-> MaxAttrs,
                 declared |-> <<args>>,
                 props |-> PropArgsMerge(PropArgsDefault, PropArgsParse(args)),
                 out |-> NoOut]
    /\ NoRun
    /\ ch = NoChain /\ wr = NoWriter /\ fl = NoFlatten /\ tg = NoTags /\ vc = NoVarCheck

\* for attr in attrs { props.merge_attr(attr) } of the fn or the impl
MacItemAttr ==
    /\ mac.phase = "attrs" /\ mac.left > 0
    /\ \E attr \in Attrs :
          mac' = [mac EXCEPT !.left = @ - 1,
                             !.props = merge_attr(@, attr),
                             !.declared = IF attr.oofs THEN Append(@, attr.args) ELSE @]
    /\ UNCHANGED <<run, vc, ch, wr, fl, tg>>

\* OofFn::to_tokens: the block verbatim if props.skip(), else through the Writer
MacFn ==
    /\ mac.phase = "attrs" /\ mac.kind = "fn"
    /\ mac' = [mac EXCEPT !.phase = "done",
                          !.out = Emitted([kind |-> "fn", ret |-> [kind |-> "Default"]],
                                          ~Skip(mac.props), mac.props, mac.declared, <<>>)]
    /\ UNCHANGED <<run, vc, ch, wr, fl, tg>>

\* OofImpl::to_tokens reaches the items of the block
MacImplOpen ==
    /\ mac.phase = "attrs" /\ mac.kind = "impl"
    /\ mac' = [mac EXCEPT !.phase = "items"]
    /\ UNCHANGED <<run, vc, ch, wr, fl, tg>>

\* one pass of for item in items
MacImplItem ==
    /\ mac.phase = "items"
    /\ \E item \in ImplItems(mac.left) :
          mac' = [mac EXCEPT !.phase = "item", !.out =
                     IF should_impl_oof(item)
                     THEN Emitted(item, TRUE, MergeAttrs(mac.props, item.attrs),
                                  mac.declared, OofsArgs(item.attrs))
                     ELSE Emitted(item, FALSE, MergeAttrs(mac.props, item.attrs),
                                  mac.declared, OofsArgs(item.attrs))]
    /\ UNCHANGED <<run, vc, ch, wr, fl, tg>>

\* the loop goes on to the next item, with the props of the impl block
MacImplNext ==
    /\ mac.phase = "item"
    /\ mac' = [mac EXCEPT !.phase = "items", !.out = NoOut]
    /\ UNCHANGED <<run, vc, ch, wr, fl, tg>>

NextMacro == MacItemAttr \/ MacFn \/ MacImplOpen \/ MacImplItem \/ MacImplNext

SpecMacro == InitMacro /\ [][NextMacro]_vars

----------------------------------------------------------------------------
(* The Writer (oofs_derive write.rs) walking the body of an instrumented   *)
(* function. A body is followed along one path: the constructs that        *)
(* enclose one ? expression, outermost first, and then the ? itself.       *)

\* the kinds of construct on the path: "block" stands for every expression
\* the Writer recurses through (blocks, if, loops, calls, let statements,
\* ...), "operand" for an argument or the receiver of the operand of another
\* ?, "let" for the scrutinee of if let / while let (Expr::Let), "macro" for
\* a macro invocation
Constructs == {"block", "operand", "closure", "async", "item", "let", "macro"}

Bodies == BSeq(Constructs, MaxNest)

\* the props the Writer can be given: the arguments of up to two attributes
WriterProps == {PropArgsMerge(PropArgsParse(a), PropArgsParse(b)) : a, b \in ArgLists}

\* Writer::new, about to write the outermost construct of the body
WriterNew(props, body) ==
    [phase |-> "write", props |-> props, body |-> body, at |-> 1, out |-> "none"]

\* x.to_tokens(tokens): everything from here inwards is copied as written
to_tokens(w) == [w EXCEPT !.phase = "done", !.out = "verbatim"]

\* props.write(tokens) on the inner expression
Inner(w) == [w EXCEPT !.at = @ + 1]

\* faulty variant: the body of a closure is always written through
_closure_always(w) == Inner(w)

\* Writer::_closure
_closure(w) == IF Closures(w.props) THEN Inner(w) ELSE to_tokens(w)

\* Writer::_async
_async(w) == IF AsyncBlocks(w.props) THEN Inner(w) ELSE to_tokens(w)

\* Writer::_try: the operand goes through props.context(tokens)
_try(w) == [w EXCEPT !.phase = "done", !.out = "context"]

\* Writer::stmts with Writer::item, and Writer::expr with its arms: an
\* enclosing ? writes its operand through Context, whose Arg::write_prep and
\* Call::write_call write the inner expressions with props.write; Expr::Let
\* and Expr::Macro have no arm and fall to the last one
WriterExpr(w) ==
    IF w.at > Len(w.body) THEN _try(w)
    ELSE CASE w.body[w.at] = "closure" -> _closure(w)
           [] w.body[w.at] = "async" -> _async(w)
           [] w.body[w.at] \in {"block", "operand"} -> Inner(w)
           [] OTHER -> to_tokens(w)

InitWriter ==
    /\ \E props \in WriterProps, body \in Bodies : wr = WriterNew(props, body)
    /\ NoRun
    /\ ch = NoChain /\ mac = NoMacro /\ fl = NoFlatten /\ tg = NoTags /\ vc = NoVarCheck

\* one call of Writer::expr (or Writer::stmts) on the way down
WriteExpr ==
    /\ wr.phase = "write"
    /\ wr' = WriterExpr(wr)
    /\ UNCHANGED <<run, vc, ch, mac, fl, tg>>

SpecWriter == InitWriter /\ [][WriteExpr]_vars

----------------------------------------------------------------------------
(* Tags used directly (tags.rs), as the closure of _tag_manually has them: *)
(* tag, untag and tagged for any keys in any order. ops is the history of  *)
(* the calls, prev the set before the last of them.                        *)

\* the types used as keys; TypeId::of::<T>() tells any two of them apart
TagKeys == {"T1", "T2", "T3"}

InitTags ==
    /\ tg = [phase |-> "tags", set |-> TagsNew, prev |-> TagsNew, ops |-> <<>>,
             asked |-> <<>>]
    /\ NoRun
    /\ ch = NoChain /\ mac = NoMacro /\ wr = NoWriter /\ fl = NoFlatten /\ vc = NoVarCheck

\* tags.tag::<T>()
CallTag ==
    /\ tg.phase = "tags" /\ Len(tg.ops) < MaxTagOps
    /\ \E t \in TagKeys :
          tg' = [tg EXCEPT !.set = TagsTag(@, t), !.prev = tg.set,
                           !.ops = Append(@, <<"tag", t>>), !.asked = <<>>]
    /\ UNCHANGED <<run, vc, ch, mac, wr, fl>>

\* tags.untag::<T>()
CallUntag ==
    /\ tg.phase = "tags" /\ Len(tg.ops) < MaxTagOps
    /\ \E t \in TagKeys :
          tg' = [tg EXCEPT !.set = TagsUntag(@, t), !.prev = tg.set,
                           !.ops = Append(@, <<"untag", t>>), !.asked = <<>>]
    /\ UNCHANGED <<run, vc, ch, mac, wr, fl>>

\* tags.tagged::<T>(): the answer is kept, the set is only read
CallTagged ==
    /\ tg.phase = "tags" /\ tg.asked = <<>>
    /\ \E t \in TagKeys : tg' = [tg EXCEPT !.asked = <<t, TagsTagged(tg.set, t)>>]
    /\ UNCHANGED <<run, vc, ch, mac, wr, fl>>

SpecTags == InitTags /\ [][CallTag \/ CallUntag \/ CallTagged]_vars

----------------------------------------------------------------------------
(* Flattening of the operand of a ? (oofs_derive context.rs): the receiver *)
(* is classified, every method call of the chain is added to it, and the  *)
(* description of the chain is emitted. An expression is its receiver      *)
(* (with the number of arguments of a call) and its method calls, each     *)
(* with its number of arguments and whether its name starts with _.        *)

\* the expression at the root of a chain: a path (a single identifier or
\* not), a field access (of a path or of another expression), a call, or
\* any other expression
ReceiverShapes ==
    {[kind |-> "Path", ident |-> b] : b \in BOOLEAN}
    \cup {[kind |-> "Field", base |-> k] : k \in {"Path", "Field", "Call"}}
    \cup {[kind |-> "Call", nargs |-> n] : n \in 0..MaxArgs}
    \cup {[kind |-> "Lit"]}

MethodCalls == {[is_meta |-> b, nargs |-> n] : b \in BOOLEAN, n \in 0..MaxArgs}

\* the source expressions of a call site: the receiver, and argument index
\* of step (0 the receiver call, k the k-th method call)
RecvExpr == [of |-> "recv", step |-> 0, index |-> 0]

ArgExpr(step, index) == [of |-> "arg", step |-> step, index |-> index]

\* expr.args of a call with n arguments
Punctuated(step, n) == [i \in 1..n |-> ArgExpr(step, i - 1)]

\* faulty variant: the Arg keeps its position in its own call
ArgNewPerCall(prefix, index, agg_index, expr) ==
    [arg |-> [index |-> index, name |-> <<prefix, index>>, expr |-> expr],
     agg_index |-> agg_index + 1]

\* Arg::new: index = *agg_index; *agg_index += 1
ArgNew(prefix, index, agg_index, expr) ==
    [arg |-> [index |-> agg_index, name |-> <<prefix, index>>, expr |-> expr],
     agg_index |-> agg_index + 1]

\* Arg::from_punctuated over the arguments of a call, i the next of them
RECURSIVE from_punctuated(_, _, _, _)
from_punctuated(prefix, agg_index, punctuated, i) ==
    IF i >= Len(punctuated) THEN [args |-> <<>>, agg_index |-> agg_index]
    ELSE LET a == ArgNew(prefix, i, agg_index, punctuated[i + 1])
             rest == from_punctuated(prefix, a.agg_index, punctuated, i + 1)
         IN  [args |-> <<a.arg>> \o rest.args, agg_index |-> rest.agg_index]

\* ContextInner::ident / field / call / arg
ContextInnerNew(recv) ==
    IF recv.kind \in {"Ident", "Field"}
    THEN [receiver |-> [kind |-> recv.kind, args |-> <<>>], chain |-> <<>>, agg_index |-> 0]
    ELSE IF recv.kind = "Call"
    THEN LET c == from_punctuated("__recv", 0, Punctuated(0, recv.nargs), 0)
         IN  [receiver |-> [kind |-> "Call", args |-> c.args], chain |-> <<>>,
              agg_index |-> c.agg_index]
    ELSE LET a == ArgNew("__recv", 0, 0, RecvExpr)
         IN  [receiver |-> [kind |-> "Arg", args |-> <<a.arg>>], chain |-> <<>>,
              agg_index |-> a.agg_index]

\* Context::_other
_other(expr) == ContextInnerNew([kind |-> "Arg"])

\* Context::_path: a path without qself that is one identifier
_path(expr) == IF expr.ident THEN ContextInnerNew([kind |-> "Ident"]) ELSE _other(expr)

\* Context::_field: a field whose base is a path
_field(expr) == IF expr.base = "Path" THEN ContextInnerNew([kind |-> "Field"]) ELSE _other(expr)

\* Context::_call
_call(expr) == ContextInnerNew(expr)

\* Context::_expr on an expression that is neither a method call nor an await
_expr(expr) ==
    CASE expr.kind = "Call" -> _call(expr)
      [] expr.kind = "Path" -> _path(expr)
      [] expr.kind = "Field" -> _field(expr)
      [] OTHER -> _other(expr)

\* faulty variant: the method is put in front of the chain
MethodNewFront(this, call) ==
    LET index == Len(this.chain)
        made == IF call.is_meta THEN [args |-> <<>>, agg_index |-> this.agg_index]
                ELSE from_punctuated(<<"__", index>>, this.agg_index,
                                     Punctuated(call.pos, call.nargs), 0)
    IN  [this EXCEPT !.chain = <<[is_meta |-> call.is_meta, args |-> made.args,
                                  expr |-> call]>> \o @,
                     !.agg_index = made.agg_index]

\* Method::new with the push of Context::_method_call
MethodNew(this, call) ==
    LET index == Len(this.chain)
        made == IF call.is_meta THEN [args |-> <<>>, agg_index |-> this.agg_index]
                ELSE from_punctuated(<<"__", index>>, this.agg_index,
                                     Punctuated(call.pos, call.nargs), 0)
    IN  [this EXCEPT !.chain = Append(@, [is_meta |-> call.is_meta, args |-> made.args,
                                          expr |-> call]),
                     !.agg_index = made.agg_index]

\* OofArg::new(index, type, display): the runtime Arg is named by its index
OofArgNew(a) == Arg(ToString(a.index), "usize", <<>>)

EmittedArgs(args) == [i \in 1..Len(args) |-> OofArgNew(args[i])]

NotMeta(method) == ~method.is_meta

\* ToTokens for ContextInner: OofGeneratedContext::new(receiver.into()) with
\* .with_method(method) for every method that is not a meta method; a method
\* is named by stringify!(expr.method)
ContextInnerTokens(this) ==
    LET r == this.receiver
        receiver == IF r.kind = "Call"
                    THEN [kind |-> "Method", method |-> Method("f", EmittedArgs(r.args))]
                    ELSE IF r.kind = "Arg" THEN [kind |-> "Arg", arg |-> OofArgNew(r.args[1])]
                    ELSE [kind |-> "Ident", name |-> "x", is_async |-> FALSE]
        kept == SelectSeq(this.chain, NotMeta)
    IN  WithMethods(ContextNew(receiver),
                    [i \in 1..Len(kept) |->
                        Method(ToString(kept[i].expr.pos), EmittedArgs(kept[i].args))])

\* a token of the emitted block: what it binds or reads, and the source
\* expression or the step it holds
Token(tok, name, expr) == [tok |-> tok, name |-> name, expr |-> expr]

Invoke(step) == [of |-> "invoke", step |-> step, index |-> 0]

\* Arg::write_prep: let arg = expr; then its type name, its wrapper, its
\* deferred rendering, and the value unloaded again
ArgWritePrep(a) ==
    <<Token("let", a.name, a.expr), Token("type_name_of_val", a.name, a.expr),
      Token("try_lazy", a.name, a.expr), Token("unload", a.name, a.expr)>>

\* faulty variant: the call is given the expression again
ArgWriteCallExpr(a) == <<Token("expr", a.name, a.expr)>>

\* Arg::write_call: the temporary
ArgWriteCall(a) == <<Token("temp", a.name, a.expr)>>

\* ToTokens for Arg: OofArg::new(index, arg_type, arg_lazy_exec.exec())
ArgTokens(a) == <<Token("arg_type", a.name, a.expr), Token("exec", a.name, a.expr)>>

\* Call::write_prep / Method::write_prep: every Arg's write_prep
ArgsWritePrep(args) == Flatten([i \in 1..Len(args) |-> ArgWritePrep(args[i])])

ArgsWriteCall(args) == Flatten([i \in 1..Len(args) |-> ArgWriteCall(args[i])])

ArgsTokens(args) == Flatten([i \in 1..Len(args) |-> ArgTokens(args[i])])

\* Receiver::write_prep: nothing for an identifier or a field
ReceiverWritePrep(r) == ArgsWritePrep(r.args)

\* Receiver::write_call: the identifier or the field itself, the temporary of
\* an Arg, the function called with the temporaries of a Call
ReceiverWriteCall(r) ==
    CASE r.kind \in {"Ident", "Field"} -> <<Token("expr", <<>>, RecvExpr)>>
      [] r.kind = "Arg" -> ArgWriteCall(r.args[1])
      [] r.kind = "Call" -> ArgsWriteCall(r.args) \o <<Token("invoke", <<>>, Invoke(0))>>

\* ToTokens for Receiver: the name of an identifier or a field is stringified
ReceiverTokens(r) ==
    IF r.kind \in {"Ident", "Field"} THEN <<Token("stringify", <<>>, RecvExpr)>>
    ELSE ArgsTokens(r.args)

\* Method::write_prep
MethodWritePrep(m) == ArgsWritePrep(m.args)

\* Method::write_call: a meta method has its arguments written where they
\* are, any other method is given its temporaries
MethodWriteCall(m) ==
    (IF m.is_meta
     THEN [i \in 1..m.expr.nargs |-> Token("expr", <<>>, ArgExpr(m.expr.pos, i - 1))]
     ELSE ArgsWriteCall(m.args))
    \o <<Token("invoke", <<>>, Invoke(m.expr.pos))>>

\* ToTokens for Method
MethodTokens(m) == ArgsTokens(m.args)

\* ToTokens for ContextInner, the emitted block: the write_prep of the
\* receiver and of the methods that are not meta, the call, and the closure
\* that makes the Context
ContextInnerCode(this) ==
    LET kept == SelectSeq(this.chain, NotMeta)
    IN  [prep |-> ReceiverWritePrep(this.receiver)
                  \o Flatten([i \in 1..Len(kept) |-> MethodWritePrep(kept[i])]),
         call |-> ReceiverWriteCall(this.receiver)
                  \o Flatten([i \in 1..Len(this.chain) |-> MethodWriteCall(this.chain[i])]),
         closure |-> ReceiverTokens(this.receiver)
                     \o Flatten([i \in 1..Len(kept) |-> MethodTokens(kept[i])])]

\* what running a sequence of tokens evaluates, in order: the source
\* expressions bound or written in place, and the calls invoked
Evaluates(t) == t.tok \in {"let", "expr", "invoke"}

Evaluated(tokens) ==
    LET ev == SelectSeq(tokens, Evaluates)
    IN  [i \in 1..Len(ev) |-> ev[i].expr]

InitFlatten ==
    /\ \E recv \in ReceiverShapes, methods \in BSeq(MethodCalls, MaxMethods) :
          fl = [phase |-> "expr", recv |-> recv,
                methods |-> [k \in 1..Len(methods) |->
                                [is_meta |-> methods[k].is_meta, nargs |-> methods[k].nargs,
                                 pos |-> k]],
                this |-> [receiver |-> [kind |-> "none", args |-> <<>>], chain |-> <<>>,
                          agg_index |-> 0],
                out |-> ContextNone,
                code |-> [prep |-> <<>>, call |-> <<>>, closure |-> <<>>],
                failed |-> FALSE, events |-> <<>>, reads |-> <<>>]
    /\ NoRun
    /\ ch = NoChain /\ mac = NoMacro /\ wr = NoWriter /\ tg = NoTags /\ vc = NoVarCheck

\* the innermost call of Context::_expr: the receiver of the chain
FlattenReceiver ==
    /\ fl.phase = "expr"
    /\ fl' = [fl EXCEPT !.phase = "chain", !.this = _expr(fl.recv)]
    /\ UNCHANGED <<run, vc, ch, mac, wr, tg>>

\* Context::_method_call returning: the next method call of the chain
FlattenMethod ==
    /\ fl.phase = "chain" /\ Len(fl.this.chain) < Len(fl.methods)
    /\ fl' = [fl EXCEPT !.this = MethodNew(@, fl.methods[Len(fl.this.chain) + 1])]
    /\ UNCHANGED <<run, vc, ch, mac, wr, tg>>

\* Context::expr: inner.to_tokens(self.tokens)
FlattenTokens ==
    /\ fl.phase = "chain" /\ Len(fl.this.chain) = Len(fl.methods)
    /\ fl' = [fl EXCEPT !.phase = "done", !.out = ContextInnerTokens(fl.this),
                        !.code = ContextInnerCode(fl.this)]
    /\ UNCHANGED <<run, vc, ch, mac, wr, tg>>

\* the emitted block is run: the bindings, the call, and when the call has
\* failed the closure build_oof is given
RunSite ==
    /\ fl.phase = "done"
    /\ \E failed \in BOOLEAN :
          fl' = [fl EXCEPT !.phase = "ran", !.failed = failed,
                           !.events = Evaluated(fl.code.prep \o fl.code.call),
                           !.reads = IF failed THEN fl.code.closure ELSE <<>>]
    /\ UNCHANGED <<run, vc, ch, mac, wr, tg>>

SpecFlatten ==
    InitFlatten /\ [][FlattenReceiver \/ FlattenMethod \/ FlattenTokens \/ RunSite]_vars

----------------------------------------------------------------------------
(* Deferred rendering of a bound value (oofs var_check.rs): a value wrapped *)
(* in __VarWrapper is asked for a deferred rendering by try_lazy, and the   *)
(* rendering is taken by exec. A value is what the call site knows of its   *)
(* type (Copy, Debug) and what it holds; runs counts the calls of the       *)
(* closure given to try_lazy.                                               *)

Values == [copy : BOOLEAN, debug : BOOLEAN, value : {5}]

\* try_debug_fmt: Some(format!("{:?}", self.0)) of a type that is Debug, the
\* None of __VarCheck otherwise
try_debug_fmt(v) == IF v.debug THEN <<ToString(v.value)>> ELSE <<>>

\* impls_copy: true of __VarWrapper<T: Copy>, the false of __VarCheck otherwise
impls_copy(v) == v.copy

\* __VarCheck::try_lazy: __InstantExecute(should_exec.then(|| f(self)...).flatten())
VarCheckTryLazy(v, should_exec) ==
    [exe |-> [kind |-> "Instant", arg |-> v, f |-> FALSE,
              val |-> IF should_exec THEN try_debug_fmt(v) ELSE <<>>],
     runs |-> IF should_exec THEN 1 ELSE 0]

\* __VarWrapper<T: Copy>::try_lazy: __LazyExecute(*self, should_exec.then_some(f))
VarWrapperTryLazy(v, should_exec) ==
    [exe |-> [kind |-> "Lazy", arg |-> v, f |-> should_exec, val |-> <<>>],
     runs |-> 0]

\* faulty variant: the closure is run at once for every value
try_lazy_instant(v, should_exec) == VarCheckTryLazy(v, should_exec)

\* bin.try_lazy(should_exec, |v| v.try_debug_fmt()): the method of
\* __VarWrapper<T: Copy> where T is Copy, that of __VarCheck otherwise
try_lazy(v, should_exec) ==
    IF impls_copy(v) THEN VarWrapperTryLazy(v, should_exec)
    ELSE VarCheckTryLazy(v, should_exec)

\* __InstantExecute::exec: self.0; __LazyExecute::exec: f.map(|f| f(arg)...).flatten()
exec(exe) ==
    IF exe.kind = "Instant" THEN [out |-> exe.val, runs |-> 0]
    ELSE [out |-> IF exe.f THEN try_debug_fmt(exe.arg) ELSE <<>>,
          runs |-> IF exe.f THEN 1 ELSE 0]

NoExecute == [kind |-> "none", arg |-> <<>>, f |-> FALSE, val |-> <<>>]

InitVarCheck ==
    /\ \E vs \in BSeq(Values \X BOOLEAN, MaxVars) :
          vc = [k \in 1..Len(vs) |->
                   [v |-> vs[k][1], should_exec |-> vs[k][2], phase |-> "wrapped",
                    exe |-> NoExecute, runs |-> 0, out |-> <<>>]]
    /\ NoRun
    /\ ch = NoChain /\ mac = NoMacro /\ wr = NoWriter /\ fl = NoFlatten /\ tg = NoTags

\* let arg_lazy_exec = arg_bin.try_lazy(should_exec, |v| v.try_debug_fmt())
CallTryLazy ==
    /\ \E k \in 1..Len(vc) :
          /\ vc[k].phase = "wrapped"
          /\ LET made == try_lazy(vc[k].v, vc[k].should_exec)
             IN  vc' = [vc EXCEPT ![k].phase = "lazy", ![k].exe = made.exe,
                                  ![k].runs = @ + made.runs]
    /\ UNCHANGED <<run, ch, mac, wr, fl, tg>>

\* arg_lazy_exec.exec()
CallExec ==
    /\ \E k \in 1..Len(vc) :
          /\ vc[k].phase = "lazy"
          /\ LET got == exec(vc[k].exe)
             IN  vc' = [vc EXCEPT ![k].phase = "done", ![k].out = got.out,
                                  ![k].runs = @ + got.runs]
    /\ UNCHANGED <<run, ch, mac, wr, fl, tg>>

SpecVarCheck == InitVarCheck /\ [][CallTryLazy \/ CallExec]_vars

----------------------------------------------------------------------------
(* Properties                                                              *)

HasEntry(name) == \E i \in 1..Len(trace) : trace[i][1] = name

OofCount(e) == Cardinality({i \in 1..Len(e) : e[i].kind = "oof"})

Carries(e, d, t) == e[d + 1].kind = "oof" /\ t \in e[d + 1].tags

EndsWith(text, suffix) ==
    /\ Len(text) >= Len(suffix)
    /\ SubSeq(text, Len(text) - Len(suffix) + 1, Len(text)) = suffix

\* C1: tagged_nested::<T>() is true iff the Oof itself or some cause at any
\* depth that is an Oof carries T (causes of other types are skipped); with no
\* Oof among the causes it equals tagged::<T>().
C1_TaggedNested ==
    q # NoQuery =>
        \A t \in TagIds :
            /\ q[t].nested <=> \E d \in 0..(Len(res.err) - 1) : Carries(res.err, d, t)
            /\ (\A d \in 1..(Len(res.err) - 1) : res.err[d + 1].kind # "oof")
                   => q[t].nested = q[t].tagged

\* three nested Oofs, only the innermost carries T
C1_Witness ==
    /\ q # NoQuery /\ Len(res.err) >= 3
    /\ \E t \in TagIds :
        /\ \A d \in 0..2 : res.err[d + 1].kind = "oof"
        /\ ~Carries(res.err, 0, t) /\ ~Carries(res.err, 1, t) /\ Carries(res.err, 2, t)
        /\ q[t].nested /\ ~q[t].tagged

\* C2: at one failing call the Context is set at most once, the context
\* closure runs at most once, and the built Oof carries the first Context set.
C2_ContextSetOnce ==
    /\ cnt.ctxset <= 1
    /\ cnt.gen <= 1
    /\ Failed => res.err[1].context = cnt.first

\* C3: a success value passes unchanged through every OofExt method and
\* build_oof, no builder is created and no closure is run; a failure leaves
\* build_oof as Err of a built Oof.
C3_SuccessPassesThrough ==
    /\ input.ok =>
        /\ res.ok /\ res.val = input.val
        /\ cnt = CntZero
        /\ \A i \in 1..Len(trace) : trace[i][1] = "site"
    /\ (~input.ok /\ res.ty = "Final") => (~res.ok /\ IsOof(res.err))

\* a success that went through meta steps and build_oof
C3_Witness == input.ok /\ res.ty = "Final" /\ res.ok /\ pos >= 3

RECURSIVE TagsOfTrace(_)
TagsOfTrace(tr) ==
    IF tr = <<>> THEN {}
    ELSE LET before == TagsOfTrace(SubSeq(tr, 1, Len(tr) - 1))
             last == tr[Len(tr)]
         IN  IF last[1] = "with_tag" THEN before \cup {last[2]}
             ELSE IF last[1] = "with_tag_manually"
                  THEN IF last[2].op = "tag" THEN before \cup {last[2].t}
                       ELSE before \ {last[2].t}
             ELSE before

\* C4: after the builder calls of a site and build(), tagged::<T>() is true
\* exactly for the tags the builder was given (with_tag on a fresh builder:
\* that tag and no other); the tags of the causes play no part.
C4_TaggedOwnTags ==
    Failed => \A t \in TagIds : tagged(res.err, t) <=> t \in TagsOfTrace(trace)

\* with_tag::<T1>() alone on a fresh builder, above a cause that carries T2
C4_Witness ==
    /\ Failed
    /\ \A i \in 1..Len(trace) :
          trace[i][1] \in {"with_tag", "with_tag_manually"} => trace[i] = <<"with_tag", "T1">>
    /\ HasEntry("with_tag")
    /\ tagged(res.err, "T1") /\ ~tagged(res.err, "T2")
    /\ \E d \in 1..(Len(res.err) - 1) : Carries(res.err, d, "T2")

\* the errors next() is to yield from a Chain made of head
Causes(head) == [i \in 1..Len(head) |-> SubSeq(head, i, Len(head))]

\* C5: iterating a chain c1..cn forward to the end yields <<c1, .., cn>>,
\* iterating it backward to the end yields <<cn, .., c1>>.
C5_ForwardAndReverse ==
    ch.nones > 0 =>
        /\ ch.back = <<>> => ch.front = Causes(ch.head)
        /\ ch.front = <<>> => ch.back = Reverse(Causes(ch.head))

\* a chain of three iterated backward to its end
C5_Witness ==
    /\ Len(ch.head) = 3 /\ ch.nones > 0 /\ ch.front = <<>>
    /\ ch.back = <<SubSeq(ch.head, 3, 3), SubSeq(ch.head, 2, 3), ch.head>>

\* C6 as stated: a failure is wrapped into an Oof exactly once, however many
\* instrumented boundaries it is propagated through.
C6_WrappedOnce == Failed => OofCount(res.err) = 1

\* C6 as amended: every instrumented boundary wraps the failure it is handed,
\* an Err(Oof) of the callee included: the new Oof has that error, unchanged
\* and with all its causes and Contexts, as its source.
C6_WrapsAtEachBoundary ==
    (Failed /\ HasEntry("build_oof")) =>
        /\ IsOof(res.err)
        /\ Source(res.err) = (IF input.ty = "Result" THEN input.err ELSE <<>>)

\* the Err(Oof) of an instrumented callee went through the caller's boundary
C6_Witness ==
    /\ Failed /\ HasEntry("build_oof") /\ site >= 2
    /\ input.ty = "Result" /\ IsOof(input.err)
    /\ OofCount(res.err) = OofCount(input.err) + 1

SiteMark == CHOOSE i \in 1..Len(trace) : trace[i][1] = "site"

IsBuilderCall(entry) == entry[1] \notin {"site", "new", "with_source", "build_oof"}

AttachmentOf(entry) ==
    IF entry[1] = "with_attachment" THEN <<DebugFmt(entry[2])>>
    ELSE IF entry[1] = "with_attachment_lazy" THEN <<ToStr(entry[2])>>
    ELSE <<>>

\* C7: on failure the emitted wrapper applies the configured tags, then the
\* configured attachments, then the configured lazy attachments, each group
\* in declaration order, and only then generates the Context, and that only if
\* none is set; the attachment list is: those of the meta steps, then the
\* configured attach values, then the configured attach_lazy values.
C7_WrapperOrder ==
    (Failed /\ HasEntry("site")) =>
        LET k == SiteMark
            p == trace[k][2]
            before == SubSeq(trace, 1, k - 1)
            after == SelectSeq(SubSeq(trace, k + 1, Len(trace)), IsBuilderCall)
            ctxset == \E i \in 1..Len(before) : before[i][1] = "with_custom"
        IN  /\ after =
                  [i \in 1..Len(p.tag) |-> <<"with_tag", p.tag[i]>>]
                  \o [i \in 1..Len(p.attach) |-> <<"with_attachment", p.attach[i]>>]
                  \o [i \in 1..Len(p.attach_lazy) |->
                         <<"with_attachment_lazy", p.attach_lazy[i]>>]
                  \o (IF ctxset THEN <<>> ELSE <<<<"with_generated", "">>>>)
                  \o <<<<"build", "">>>>
            /\ res.err[1].attachments =
                  Flatten([i \in 1..Len(before) |-> AttachmentOf(before[i])])
                  \o [i \in 1..Len(p.attach) |-> DebugFmt(p.attach[i])]
                  \o [i \in 1..Len(p.attach_lazy) |-> ToStr(p.attach_lazy[i])]

\* a site configured with an attachment and a lazy attachment has failed
C7_Witness ==
    /\ Failed /\ HasEntry("site")
    /\ Len(trace[SiteMark][2].attach) = 1 /\ Len(trace[SiteMark][2].attach_lazy) = 1
    /\ Len(res.err[1].attachments) = 2

\* the causes in the scan, without the Oof itself
CausesSeen(seen) == SelectSeq(seen, LAMBDA d : d > 0)

\* C8 as stated: tagged_nested_rev examines the causes outermost first, the
\* cause closest to the root cause last.
C8_OutermostFirst ==
    q # NoQuery =>
        \A t \in TagIds :
            LET s == CausesSeen(q[t].seen_rev)
            IN  \A i \in 1..(Len(s) - 1) : s[i] < s[i + 1]

\* C8 as amended: tagged_nested_rev examines the causes root cause first and
\* the immediate cause last, stops at the first cause that is an Oof carrying
\* T, and looks at the Oof's own tags only after every cause was examined.
C8_RootCauseFirst ==
    q # NoQuery =>
        \A t \in TagIds :
            LET n == Len(res.err) - 1
                order == [i \in 1..(n + 1) |-> IF i <= n THEN n + 1 - i ELSE 0]
                s == q[t].seen_rev
            IN  /\ Len(s) \in 1..(n + 1)
                /\ s = SubSeq(order, 1, Len(s))
                /\ \A i \in 1..(Len(s) - 1) : ~Carries(res.err, s[i], t)
                /\ Len(s) < n + 1 => Carries(res.err, s[Len(s)], t)
                /\ q[t].nested_rev = Carries(res.err, s[Len(s)], t)

\* two causes or more, scanned from the root cause up to the Oof itself
C8_Witness ==
    /\ q # NoQuery /\ Len(res.err) >= 3
    /\ \E t \in TagIds :
        /\ Len(q[t].seen_rev) = Len(res.err)
        /\ q[t].seen_rev[1] = Len(res.err) - 1
        /\ q[t].nested_rev

\* C9: the generated context of an Oof without source (the expression was
\* None) ends in "returned None", that of an Oof with a source in "failed".
C9_SuffixTellsAbsence ==
    (Failed /\ res.err[1].context.kind = "Generated") =>
        LET text == GeneratedFmt(res.err[1].context, FALSE)
        IN  IF Source(res.err) = <<>>
            THEN EndsWith(text, <<" returned ", Backtick, "None", Backtick>>)
            ELSE EndsWith(text, <<" failed">>)

Mentions(lists, k) ==
    Flatten([i \in 1..Len(lists) |->
        Flatten([j \in 1..Len(lists[i]) |->
            IF lists[i][j].name = k THEN <<lists[i][j].val>> ELSE <<>>])])

AccumulatingSettings == {"tag", "attach", "attach_lazy", "debug_skip", "debug_with"}

BooleanSettings == {"skip", "closures", "async_blocks"}

\* the last value written for k, false when k is never written
LastMention(lists, k) ==
    LET m == Mentions(lists, k) IN IF m = <<>> THEN FALSE ELSE m[Len(m)]

\* C11: for each accumulating setting the effective list at a call site is
\* the concatenation of every entry declared for it at every enclosing level,
\* outer level first and in declaration order, none dropped, also when one
\* attribute gives the setting more than once.
C11_DeclaredEntriesKept ==
    (mac.out.item # "none" /\ mac.out.instrumented) =>
        \A k \in AccumulatingSettings :
            mac.out.props[k] = Flatten(Mentions(mac.out.outer \o mac.out.own, k))

\* C12: for each boolean setting the effective value at a member is the one
\* set at the innermost level that sets it, the outer value where the inner
\* level does not mention it, and false when no level sets it.
C12_InnermostWins ==
    mac.out.item \in {"fn", "method"} =>
        \A k \in BooleanSettings :
            UnwrapOrFalse(mac.out.props[k]) = LastMention(mac.out.outer \o mac.out.own, k)

\* closures(false) on a method under closures on its impl block
C12_Witness ==
    /\ mac.out.item = "method"
    /\ LastMention(mac.out.outer, "closures")
    /\ Mentions(mac.out.own, "closures") = <<FALSE>>
    /\ ~Closures(mac.out.props)

\* C13: a member whose effective skip setting is true, set on the member or
\* inherited from the impl block, is emitted verbatim; a member whose
\* skip(false) overrides an outer skip is instrumented.
C13_SkipEmitsVerbatim ==
    mac.out.item \in {"fn", "method"} =>
        /\ Skip(mac.out.props) => ~mac.out.instrumented
        /\ (/\ mac.out.item = "method"
            /\ LastMention(mac.out.outer, "skip")
            /\ Mentions(mac.out.own, "skip") # <<>>
            /\ ~LastMention(mac.out.own, "skip")) => mac.out.instrumented

\* C14: in an #[oofs] impl block a method is instrumented iff it carries an
\* #[oofs] attribute and is not marked skip, or carries none and the last
\* segment of its return type is Result; every other item is left unchanged.
C14_InstrumentedMethods ==
    (mac.kind = "impl" /\ mac.out.item # "none") =>
        (mac.out.instrumented <=>
            /\ mac.out.item = "method"
            /\ \/ mac.out.own # <<>> /\ ~LastMention(mac.out.own, "skip")
               \/ mac.out.own = <<>> /\ ReturnsResult(mac.out.ret))

In(w, c) == \E i \in 1..Len(w.body) : w.body[i] = c

\* C15 (as stated): a ? is instrumented iff every kind of construct around
\* it that is a closure or an async block is allowed by closures or by
\* async_blocks; outside closures and async blocks it is always instrumented
C15_ClosuresAndAsyncOnly ==
    wr.phase = "done" =>
        (wr.out = "context" <=>
            /\ In(wr, "closure") => Closures(wr.props)
            /\ In(wr, "async") => AsyncBlocks(wr.props))

\* C15 (amended): a ? is instrumented iff closures is true when a closure
\* encloses it, async_blocks is true when an async block encloses it, and
\* neither a nested item nor an expression the Writer has no arm for (a
\* macro invocation, the scrutinee of if let / while let) encloses it;
\* otherwise it is emitted as written
C15_InstrumentedUnlessVerbatim ==
    wr.phase = "done" =>
        /\ wr.out \in {"context", "verbatim"}
        /\ wr.out = "context" <=>
            /\ In(wr, "closure") => Closures(wr.props)
            /\ In(wr, "async") => AsyncBlocks(wr.props)
            /\ ~In(wr, "item") /\ ~In(wr, "macro") /\ ~In(wr, "let")

\* a ? in a closure in an async block, instrumented with both settings on
C15_Witness ==
    /\ wr.phase = "done" /\ wr.out = "context"
    /\ In(wr, "closure") /\ In(wr, "async")

\* the step is one operation on the built Oof the caller holds
OofStep == Held /\ res'.ty = "Held" /\ Len(trace') = Len(trace) + 1

LastOp == trace'[Len(trace')][1]

\* C16: Oof::tag, tag_if, attach and attach_lazy on a built Oof leave its
\* source, Context and Location as they are; tag and tag_if leave the
\* attachments and add at most one key to the tags, attach and attach_lazy
\* leave the tags and append exactly one entry to the attachments.
C16_OofOpsFrame ==
    [][OofStep =>
        LET o == res.err[1]
            n == res'.err[1]
        IN  /\ Source(res'.err) = Source(res.err)
            /\ n.kind = "oof" /\ n.context = o.context /\ n.location = o.location
            /\ LastOp \in {"tag", "tag_if"} =>
                  /\ n.attachments = o.attachments
                  /\ o.tags \subseteq n.tags
                  /\ Cardinality(n.tags \ o.tags) <= 1
            /\ LastOp \in {"attach", "attach_lazy"} =>
                  /\ n.tags = o.tags
                  /\ Len(n.attachments) = Len(o.attachments) + 1
                  /\ SubSeq(n.attachments, 1, Len(o.attachments)) = o.attachments]_vars

\* an Oof with a source and a generated Context has been tagged with a new
\* key and then given an attachment
C16_Witness ==
    /\ res.ty = "Held" /\ Source(res.err) # <<>>
    /\ res.err[1].context.kind = "Generated"
    /\ HasEntry("tag") /\ trace[Len(trace)][1] = "attach_lazy"
    /\ res.err[1].tags # {} /\ Len(res.err[1].attachments) = 1

\* the rendering an attaching call adds to the list
RenderedBy(entry) ==
    IF entry[1] \in {"with_attachment", "attach"} THEN <<DebugFmt(entry[2])>>
    ELSE IF entry[1] \in {"with_attachment_lazy", "attach_lazy"} THEN <<ToStr(entry[2])>>
    ELSE <<>>

\* the Attachments block: one numbered line for each entry, from 0
NumberedBlock(atts) ==
    <<"\n", "Attachments:", "\n">>
    \o Flatten([i \in 1..Len(atts) |->
                   <<"    ", ToString(i - 1), ": ">> \o atts[i] \o <<"\n">>])

\* C17: the attachment list of the Oof is the renderings of the attaching
\* calls in call order, those on the builder first, then those on the Oof:
\* each call has appended one entry and no earlier entry was removed, moved
\* or rewritten; the rendered Attachments block numbers them 0, 1, 2, ...
C17_AttachmentsInCallOrder ==
    Held =>
        LET atts == res.err[1].attachments
        IN  /\ atts = Flatten([i \in 1..Len(trace) |-> RenderedBy(trace[i])])
            /\ atts # <<>> => EndsWith(OofFmt(res.err[1]), NumberedBlock(atts))

\* a lazy attachment of the builder followed by an attachment of the Oof
C17_Witness ==
    /\ res.ty = "Held"
    /\ HasEntry("with_attachment_lazy") /\ trace[Len(trace)][1] = "attach"
    /\ res.err[1].attachments = <<<<"extra">>, <<"\"", "field", "\"">>>>

\* the step holds a call of with_tag_if (through _tag_if or on the builder)
TagIfCalls == {i \in (Len(trace) + 1)..Len(trace') : trace'[i][1] = "with_tag_if"}

\* the receiver of the call: the builder it was made on, a new one otherwise
TagIfTags == IF res.ty = "ResultB" THEN res.b.tags ELSE TagsNew

TagIfSource == IF res.ty = "ResultB" THEN res.b.source # <<>> ELSE res.ty = "Result"

\* C19: _tag_if on a failing Result, Option or builder, and Oof::tag_if on a
\* built Oof, add the tag iff there is a source and the predicate answers
\* true for it; otherwise the tags stay as they are, and without a source
\* the predicate is not run.
C19_TagIfNeedsSource ==
    [][/\ (Open /\ ~res.ok /\ Len(trace') > Len(trace) /\ TagIfCalls # {}) =>
            \A i \in TagIfCalls :
                /\ res'.ty = "ResultB"
                /\ res'.b.tags = IF TagIfSource /\ trace'[i][2].f
                                 THEN TagIfTags \cup {trace'[i][2].t} ELSE TagIfTags
                /\ ~TagIfSource => cnt'.pred = cnt.pred
       /\ (OofStep /\ LastOp = "tag_if") =>
            LET a == trace'[Len(trace')][2]
                src == Source(res.err) # <<>>
            IN  /\ res'.err[1].tags = IF src /\ a.f THEN res.err[1].tags \cup {a.t}
                                      ELSE res.err[1].tags
                /\ ~src => cnt'.pred = cnt.pred]_vars

\* tag_if with a predicate answering true has left the tags of an Oof made
\* by Oof::custom as they were, and _tag_if those of a builder made from None
C19_Witness ==
    \/ /\ res.ty = "Held" /\ Source(res.err) = <<>>
       /\ trace[Len(trace)][1] = "tag_if" /\ trace[Len(trace)][2].f
       /\ res.err[1].tags = {} /\ cnt.pred = 0
    \/ /\ res.ty = "ResultB" /\ ~res.ok /\ input = RNone
       /\ trace[Len(trace)][1] = "with_tag_if" /\ trace[Len(trace)][2].f
       /\ res.b.tags = {} /\ cnt.pred = 0

\* the last call made on key t: "tag", "untag", or "none"
RECURSIVE LastOn(_, _)
LastOn(ops, t) ==
    IF ops = <<>> THEN "none"
    ELSE IF ops[Len(ops)][2] = t THEN ops[Len(ops)][1]
    ELSE LastOn(SubSeq(ops, 1, Len(ops) - 1), t)

\* C18: after any calls of tag and untag, tagged::<T>() is true iff the last
\* call on key T was tag::<T>(); a call on T leaves every other key as it
\* was (untag removes T alone, tag of a key already present changes
\* nothing), and the answer for T does not depend on any other key.
C18_LastCallDecides ==
    tg.phase = "tags" =>
        /\ \A t \in TagKeys : TagsTagged(tg.set, t) <=> LastOn(tg.ops, t) = "tag"
        /\ tg.ops # <<>> =>
              LET last == tg.ops[Len(tg.ops)]
              IN  /\ \A u \in TagKeys \ {last[2]} : u \in tg.set <=> u \in tg.prev
                  /\ (last[1] = "tag" /\ last[2] \in tg.prev) => tg.set = tg.prev
                  /\ last[1] = "untag" => tg.set = tg.prev \ {last[2]}
        /\ tg.asked # <<>> => (tg.asked[2] <=> LastOn(tg.ops, tg.asked[1]) = "tag")

\* T1 was tagged twice and then untagged while T2 stays tagged, and the
\* query for T1 is answered
C18_Witness ==
    /\ tg.phase = "tags"
    /\ tg.ops = <<<<"tag", "T1">>, <<"tag", "T2">>, <<"tag", "T1">>, <<"untag", "T1">>>>
    /\ tg.set = {"T2"}
    /\ tg.asked = <<"T1", FALSE>>

\* the indices of the Args made so far, in the order they were met
IndicesOf(this) ==
    [i \in 1..Len(this.receiver.args) |-> this.receiver.args[i].index]
    \o Flatten([k \in 1..Len(this.chain) |->
                   [i \in 1..Len(this.chain[k].args) |-> this.chain[k].args[i].index]])

\* the arguments the expression has outside its meta methods
RECURSIVE ArgCount(_)
ArgCount(calls) ==
    IF calls = <<>> THEN 0
    ELSE (IF Head(calls).is_meta THEN 0 ELSE Head(calls).nargs) + ArgCount(Tail(calls))

ReceiverArgCount(recv) ==
    CASE recv.kind = "Call" -> recv.nargs
      [] recv.kind = "Path" -> IF recv.ident THEN 0 ELSE 1
      [] recv.kind = "Field" -> IF recv.base = "Path" THEN 0 ELSE 1
      [] OTHER -> 1

\* the names listed in a Parameters section, top to bottom
ParameterNames(text) ==
    LET marks == SelectSeq([i \in 1..Len(text) |-> i], LAMBDA i : text[i] = "$")
    IN  [k \in 1..Len(marks) |-> text[marks[k] + 1]]

\* C20: the aggregate indices given at flattening are 0, 1, 2, ... in the
\* order the arguments are met (those of the receiver, then those of each
\* method that is not a meta method, left to right), one for every such
\* argument, none twice; the Parameters section lists them in that order.
C20_AggregateIndices ==
    /\ fl.phase \in {"chain", "done", "ran"} =>
          LET ix == IndicesOf(fl.this)
          IN  /\ ix = [i \in 1..Len(ix) |-> i - 1]
              /\ Len(ix) = ReceiverArgCount(fl.recv)
                           + ArgCount(SubSeq(fl.methods, 1, Len(fl.this.chain)))
              /\ fl.this.agg_index = Len(ix)
    /\ fl.phase \in {"done", "ran"} =>
          ParameterNames(FmtArgs(fl.out)) =
              [i \in 1..Len(IndicesOf(fl.this)) |-> ToString(i - 1)]

\* a call with two arguments, then a method with one, a meta method with
\* one, and a method with two: five indices, the meta method has none
C20_Witness ==
    /\ fl.phase = "done"
    /\ fl.recv = [kind |-> "Call", nargs |-> 2]
    /\ fl.methods = <<[is_meta |-> FALSE, nargs |-> 1, pos |-> 1],
                      [is_meta |-> TRUE, nargs |-> 1, pos |-> 2],
                      [is_meta |-> FALSE, nargs |-> 2, pos |-> 3]>>
    /\ IndicesOf(fl.this) = <<0, 1, 2, 3, 4>>
    /\ Len(fl.out.chain) = 2

\* C22: debug_non_copyable(full) or (disabled) given on an impl block is the
\* effective setting of every instrumented method of the block that does not
\* give debug_non_copyable itself, whatever other arguments the method has.
C22_ImplSettingInherited ==
    (/\ mac.out.item = "method" /\ mac.out.instrumented
     /\ Mentions(mac.out.outer, "debug_non_copyable") # <<>>
     /\ Mentions(mac.out.own, "debug_non_copyable") = <<>>) =>
        LET given == Mentions(mac.out.outer, "debug_non_copyable")
        IN  mac.out.props.debug_non_copyable = given[Len(given)]

\* C27: in an instrumented body every ? that is in no closure body, async
\* block, nested item or macro invocation is wrapped in a context-generating
\* call, also when it lies in an argument or the receiver of the operand of
\* another ?, or in the scrutinee of if let / while let.
C27_EveryTryWrapped ==
    (/\ wr.phase = "done"
     /\ ~In(wr, "closure") /\ ~In(wr, "async")
     /\ ~In(wr, "item") /\ ~In(wr, "macro")) => wr.out = "context"

\* C29: for every Oof and every tag, tagged_nested::<T>() and
\* tagged_nested_rev::<T>() give the same answer; they differ only in the
\* order of the levels they examine: from the Oof down to the root cause,
\* and from the root cause up to the Oof.
C29_NestedSameBothWays ==
    q # NoQuery =>
        \A t \in TagIds :
            LET n == Len(res.err)
                down == [i \in 1..n |-> i - 1]
                up == [i \in 1..n |-> n - i]
            IN  /\ q[t].nested = q[t].nested_rev
                /\ q[t].seen = SubSeq(down, 1, Len(q[t].seen))
                /\ q[t].seen_rev = SubSeq(up, 1, Len(q[t].seen_rev))
                /\ ~q[t].nested => (q[t].seen = down /\ q[t].seen_rev = up)

\* at least three levels of which only the Oof itself carries T: found at once
\* going down, after every level going up
C29_Witness ==
    /\ q # NoQuery /\ Len(res.err) >= 3
    /\ \E t \in TagIds :
        /\ q[t].nested /\ q[t].nested_rev
        /\ q[t].seen = <<0>>
        /\ Len(q[t].seen_rev) = Len(res.err)
        /\ \A d \in 1..(Len(res.err) - 1) : ~Carries(res.err, d, t)

\* C30: under any interleaving of next() and next_back() the calls at the
\* front have yielded c1, c2, .. in order, those at the back cn, cn-1, .. in
\* order, no cause twice; len() and size_hint() are the number of causes
\* not yet yielded; None is returned only after all were yielded, and from
\* then on by both calls.
C30_EachCauseOnce ==
    LET all == Causes(ch.head)
        n == Len(all)
        left == n - Len(ch.front) - Len(ch.back)
    IN  /\ left >= 0
        /\ ch.front = SubSeq(all, 1, Len(ch.front))
        /\ ch.back = SubSeq(Reverse(all), 1, Len(ch.back))
        /\ ChainLen(ch.chain) = left
        /\ size_hint(ch.chain) = <<left, <<left>>>>
        /\ ch.nones > 0 => left = 0
        /\ left = 0 => /\ ChainNext(ch.chain).item = <<>>
                       /\ ChainNextBack(ch.chain).item = <<>>

\* three causes: one taken at the back, one at the front, one at the back,
\* then None
C30_Witness ==
    /\ Len(ch.head) = 3 /\ ch.nones > 0
    /\ Len(ch.front) = 1 /\ Len(ch.back) = 2
    /\ ch.front[1] = ch.head /\ ch.back[2] = SubSeq(ch.head, 2, 3)

\* the positions of the trace that hold a call of the name
Calls(name) == {i \in 1..Len(trace) : trace[i][1] = name}

\* the Context the calls of the trace have set last, None without any
ContextOfTrace ==
    LET set == Calls("with_custom") \cup Calls("with_generated")
        last == CHOOSE i \in set : \A j \in set : j <= i
    IN  IF set = {} THEN ContextNone
        ELSE IF trace[last][1] = "with_custom" THEN ContextCustom(trace[last][2])
        ELSE GeneratedContext(site)

\* C26: a builder is given a source at most once, by with_source on the new
\* builder or on one that has none; it then holds that source and no other;
\* with_source leaves Context, tags, attachments and Location as they were,
\* and the Location taken by OofBuilder::new() is that of the built Oof
\* whatever calls follow.
C26_SourceOnceLocationKept ==
    (res.ty \in {"ResultB", "Final", "Held"} /\ ~res.ok) =>
        LET built == res.ty # "ResultB"
            o == IF built THEN res.err[1] ELSE res.b
            source == IF built THEN Source(res.err) ELSE res.b.source
        IN  /\ Cardinality(Calls("new")) = 1
            /\ Cardinality(Calls("with_source")) <= 1
            /\ \A i \in Calls("with_source") : \E j \in Calls("new") : j < i
            /\ source = IF Calls("with_source") # {} THEN input.err ELSE <<>>
            /\ \A i \in Calls("new") : o.location = trace[i][2]
            /\ o.context = ContextOfTrace
            /\ o.attachments = Flatten([i \in 1..Len(trace) |-> RenderedBy(trace[i])])
            /\ res.ty # "Held" => o.tags = TagsOfTrace(trace)

\* a builder that was given its Context before its source, and an attachment
\* after it, has been built and the Oof changed
C26_Witness ==
    /\ res.ty = "Held" /\ Source(res.err) # <<>>
    /\ \E i \in Calls("with_custom"), j \in Calls("with_source") : i < j
    /\ res.err[1].context.kind = "Custom"
    /\ res.err[1].location = Location(1, 1)

\* the positions of the method calls of the expression that are not meta
NonMeta(methods) ==
    SelectSeq([k \in 1..Len(methods) |-> k], LAMBDA k : ~methods[k].is_meta)

\* the steps the emitted call invokes as methods, in the order of the call
InvokedSteps(call) ==
    LET inv == SelectSeq(call, LAMBDA t : t.tok = "invoke" /\ t.expr.step > 0)
    IN  [i \in 1..Len(inv) |-> inv[i].expr.step]

\* C23: the generated Context is the receiver followed by exactly the method
\* calls of the expression that are not meta, in source order and each once;
\* a meta method is not in the Context but is invoked in the emitted call at
\* its place; an expression without method calls gives a Context with an
\* empty chain.
C23_ContextHoldsNonMetaSteps ==
    fl.phase \in {"done", "ran"} =>
        LET want == NonMeta(fl.methods)
        IN  /\ fl.out.kind = "Generated"
            /\ fl.out.receiver.kind \in {"Ident", "Arg", "Method"}
            /\ [i \in 1..Len(fl.out.chain) |-> fl.out.chain[i].name]
                    = [i \in 1..Len(want) |-> ToString(want[i])]
            /\ InvokedSteps(fl.code.call) = [k \in 1..Len(fl.methods) |-> k]
            /\ fl.methods = <<>> => fl.out.chain = <<>>

\* a meta method between two methods that are not: the Context holds the
\* first and the third, the call invokes all three
C23_Witness ==
    /\ fl.phase = "done"
    /\ Len(fl.methods) = 3
    /\ ~fl.methods[1].is_meta /\ fl.methods[2].is_meta /\ ~fl.methods[3].is_meta
    /\ Len(fl.out.chain) = 2
    /\ fl.out.chain[1].name = "1" /\ fl.out.chain[2].name = "3"
    /\ InvokedSteps(fl.code.call) = <<1, 2, 3>>

\* the tokens that evaluate the receiver expression
ReceiverEvaluations(tokens) ==
    SelectSeq(tokens, LAMBDA t : t.tok \in {"let", "expr"} /\ t.expr = RecvExpr)

\* C24: an identifier or a field access at the root of a chain becomes an
\* Ident or Field receiver, written once and bound to no temporary; a call
\* becomes a Call receiver holding each of its arguments; any other
\* expression becomes an Arg receiver bound to a temporary exactly once.
C24_ReceiverClassified ==
    fl.phase \in {"done", "ran"} =>
        LET r == fl.this.receiver
            prep == ReceiverEvaluations(fl.code.prep)
            call == ReceiverEvaluations(fl.code.call)
        IN  CASE fl.recv.kind = "Path" /\ fl.recv.ident ->
                    r.kind = "Ident" /\ prep = <<>> /\ Len(call) = 1
              [] fl.recv.kind = "Field" ->
                    r.kind = "Field" /\ prep = <<>> /\ Len(call) = 1
              [] fl.recv.kind = "Call" ->
                    /\ r.kind = "Call"
                    /\ [i \in 1..Len(r.args) |-> r.args[i].expr]
                            = Punctuated(0, fl.recv.nargs)
              [] OTHER ->
                    r.kind = "Arg" /\ Len(prep) = 1 /\ prep[1].tok = "let" /\ call = <<>>

\* the expressions of the call site that are evaluated when it runs
SourceExprs(recv, methods) ==
    (IF recv.kind = "Call" THEN {ArgExpr(0, i) : i \in 0..(recv.nargs - 1)} ELSE {RecvExpr})
    \cup UNION {{ArgExpr(k, i) : i \in 0..(methods[k].nargs - 1)} : k \in 1..Len(methods)}

Occurrences(seq, x) == Cardinality({i \in 1..Len(seq) : seq[i] = x})

\* C21: when the emitted block runs, the receiver expression and every
\* argument expression of the receiver call and of every method call is
\* evaluated exactly once, whether the call fails or not; the closure that
\* makes the Context on failure reads the recorded type name and the
\* deferred rendering (and the stringified name) and evaluates no expression.
C21_EvaluatedOnce ==
    fl.phase = "ran" =>
        /\ \A x \in SourceExprs(fl.recv, fl.methods) : Occurrences(fl.events, x) = 1
        /\ \A i \in 1..Len(fl.events) :
              fl.events[i].of # "invoke" =>
                  fl.events[i] \in SourceExprs(fl.recv, fl.methods)
        /\ \A i \in 1..Len(fl.reads) :
              fl.reads[i].tok \in {"arg_type", "exec", "stringify"}
        /\ ~fl.failed => fl.reads = <<>>

\* a call with two arguments, a meta method with one and a method with one
\* have run and failed, and the Context was made
C21_Witness ==
    /\ fl.phase = "ran" /\ fl.failed
    /\ fl.recv = [kind |-> "Call", nargs |-> 2]
    /\ \E k \in 1..Len(fl.methods) : fl.methods[k].is_meta /\ fl.methods[k].nargs = 1
    /\ \E k \in 1..Len(fl.methods) : ~fl.methods[k].is_meta /\ fl.methods[k].nargs = 1
    /\ Len(fl.reads) = 6
    /\ Len(fl.events) >= 5

\* C28: in the emitted code no argument of a later method is evaluated
\* before an earlier method has been invoked, as in the expression itself.
C28_ArgumentsAfterEarlierMethods ==
    fl.phase = "ran" =>
        \A i \in 1..Len(fl.events), j \in 1..Len(fl.events) :
            (/\ i < j
             /\ fl.events[i].of = "arg"
             /\ fl.events[j].of = "invoke"
             /\ fl.events[j].step >= 1) => fl.events[i].step <= fl.events[j].step

\* C25: the closure given to try_lazy for a value that is Copy is not run by
\* try_lazy and is run once by exec, when the flag was true; for any other
\* value it is run by try_lazy when the flag was true and exec returns what
\* was stored. exec returns None when the flag was false or the type has no
\* Debug rendering, and Some of the rendering otherwise.
C25_ClosureRunWhenDue ==
    \A k \in 1..Len(vc) :
        LET b == vc[k]
            once == IF b.should_exec THEN 1 ELSE 0
        IN  /\ b.phase = "wrapped" => b.runs = 0
            /\ b.phase = "lazy" => b.runs = (IF b.v.copy THEN 0 ELSE once)
            /\ b.phase = "done" =>
                  /\ b.runs = once
                  /\ b.out = IF b.should_exec /\ b.v.debug
                             THEN <<ToString(b.v.value)>> ELSE <<>>

\* a Copy value whose closure has not run before exec and has run once after
\* it, beside a value that is not Copy whose closure has run in try_lazy
C25_Witness ==
    /\ Len(vc) = 2
    /\ vc[1].v.copy /\ vc[1].v.debug /\ vc[1].should_exec
    /\ vc[1].phase = "done" /\ vc[1].runs = 1 /\ vc[1].out = <<"5">>
    /\ ~vc[2].v.copy /\ vc[2].v.debug /\ vc[2].should_exec
    /\ vc[2].phase = "lazy" /\ vc[2].runs = 1

====
